---- MODULE Spec2Model ----
(***************************************************************************)
(* Lily-Core: the chat path (ChatService), the agent loop engine           *)
(* (AgentLoopService), the memory store, the session tracker and the tool  *)
(* executor, as a state machine.                                           *)
(*                                                                         *)
(* Texts (std::string) are sequences of symbols.  A symbol is one          *)
(* character, or a whole literal of the source / a whole JSON document     *)
(* kept as one symbol.  Everything the code inspects by position (the      *)
(* prefixes FINAL_RESPONSE: and TOOL_CALL:, substr) is kept character by   *)
(* character; no literal kept whole begins with the letter F or T, so a    *)
(* prefix test on a text gives the answer the code's find(...) == 0 gives. *)
(* A JSON value (nlohmann::json) is represented by its canonical dump().   *)
(***************************************************************************)
EXTENDS Naturals, Integers, Sequences, FiniteSets, TLC

VARIABLES
    config,               \* AppConfig: gemini_enabled, gemini_model, gemini_system_prompt,
                          \* config_file_path
    gemini_api_keys,      \* AppConfig::gemini_api_keys
    _current_key_index,   \* AppConfig::_current_key_index
    conversations,        \* MemoryService::conversations (user -> messages)
    _sessions,            \* SessionService::_sessions (user -> SessionInfo)
    _agentLoops,          \* AgentLoopService::_agentLoops
    _discovered_servers,  \* Service::_discovered_servers
    task_queue,           \* ThreadPool: tasks enqueued, not yet taken
    workers,              \* ThreadPool: the worker threads, each with its chat job
    replies,              \* what the completion callbacks were called with, in order
    now,                  \* std::chrono::system_clock::now()
    env,                  \* the environment of this run: what the clients and the LLM may do
    _connections,         \* WebSocketManager::_connections (user id -> connection handle)
    _connection_to_user,  \* WebSocketManager::_connection_to_user (handle -> user id)
    _last_pong_time,      \* WebSocketManager::_last_pong_time (handle -> instant)
    handles,              \* the WebSocket server's connections, each with its state
    wire,                 \* what the gateway sent or asked of the WebSocket server, in order
    callers,              \* threads that call the stores directly, each with its position
    log,                  \* the calls made on the stores that returned, with their results
    _services,            \* Service::_services
    _tools,               \* Service::_tools
    _tools_per_server,    \* Service::_tools_per_server (url -> tools)
    tts,                  \* TTSService: the call of synthesize_speech, with its locals
    http                  \* GatewayService: the POST /chat requests received, each with its connection

gatewayvars == <<_connections, _connection_to_user, _last_pong_time, handles, wire>>

registryvars == <<_services, _tools, _tools_per_server>>

vars == <<config, gemini_api_keys, _current_key_index, conversations, _sessions, _agentLoops,
          _discovered_servers, task_queue, workers, replies, now, env, gatewayvars,
          callers, log, registryvars, tts, http>>

----------------------------------------------------------------------------
(* Bounds of the model *)

\* chats submitted in one run of the agent-loop specification
MaxChats == 1
\* LLM calls of one run that may answer anything; each later call repeats the answer
\* fixed for its loop
MaxScript == 1
\* chats one user submits in one run of the retention specification
MaxStores == 11
\* chats each other user submits in one run of the retention specification
MaxFew == 1
\* tasks waiting in the queue at once: the clients submit no more while it is that long
MaxQueue == 1
\* calls one run makes directly on the memory store, one thread at a time
MaxMemOps == 4
\* calls one run makes directly on the memory store from two threads
MaxRaceOps == 3
\* calls one run makes on the memory store next to its calls on the session tracker
MaxStoreOps == 3
\* calls of start_session and end_session one run makes directly
MaxSessionOps == 3
\* the idle timeout in minutes that set_timeout_minutes is given in the session runs
TimeoutMinutes == 1
\* the last instant of a session run, in half minutes
MaxClock == 4
\* sweeps of cleanup_loop in one session run
MaxSweeps == 1
\* text frames the clients send in one gateway run
MaxFrames == 2
\* pongs received in one gateway run
MaxPongs == 1
\* sends addressed to a user id in one gateway run
MaxSends == 1
\* the pong timeout that set_pong_timeout is given in the gateway runs, in clock steps
PongTimeout == 1
\* the last instant of a gateway run
MaxGatewayClock == 2
\* keys configured in a key-rotation run
MaxKeys == 3
\* calls of getCurrentGeminiApiKey in a key-rotation run
MaxKeyCalls == 6
\* calls of execute_tool in a tool run
MaxToolCalls == 2
\* rounds of the periodic discovery in a tool run
MaxDiscoveries == 1
\* refreshes of the services, and of the tools, in a discovery run
MaxRefreshes == 2
\* messages the TTS provider sends on one connection
MaxTtsFrames == 3
\* POST /chat requests received in one run
MaxPosts == 2
\* text frames received in one run of the chat frames specification
MaxWsFrames == 3
\* text frames received in one run of the specification of the clients that go away
MaxClientFrames == 3
MaxConfigOps == 3
MaxBroadcastFrames == 3
MaxRegistrations == 2
MaxReads == 1
\* calls of the getters of the tool catalog in a catalog run
MaxCatalogReads == 2
\* calls of get_last_agent_loop in a run of the loop buffer
MaxLoopReads == 1
\* messages of the STT service in an echo run
MaxEchoes == 2

Users == {"u1", "u2"}
Workers == {"w1", "w2"}
Messages == {<<"h", "i">>}
Servers == <<"s1", "s2">>
\* threads that call the stores directly (HTTP handlers, WebSocket callbacks)
Callers == {"t1", "t2"}
\* contents of the messages these threads append
Contents == {<<"a">>, <<"b">>}
\* connection handles of the WebSocket server
Handles == {"c1", "c2"}

----------------------------------------------------------------------------
(* Program constants *)

\* AgentLoopService.cpp:102  if (step_number > 20)
MAX_STEPS == 20
\* AgentLoopService.cpp:58   if (_agentLoops.size() > 10)
MAX_LOOPS == 10

FINAL_PREFIX == <<"F", "I", "N", "A", "L", "_", "R", "E", "S", "P", "O", "N", "S", "E", ":">>
TOOL_PREFIX == <<"T", "O", "O", "L", "_", "C", "A", "L", "L", ":">>
SAFETY_MESSAGE ==
    <<"I'm having trouble processing this request. Please try again with a simpler question.">>
NO_KEY_MESSAGE == <<"Error: GEMINI_API_KEY not configured">>
CONTINUE_ANALYSIS == <<"Continue analysis">>
PARSE_FAILED == <<"Error: Failed to parse tool call">>
JNULL == <<"null">>

----------------------------------------------------------------------------
(* std::string *)

\* s.find(p) == 0
StartsWith(s, p) == Len(s) >= Len(p) /\ SubSeq(s, 1, Len(p)) = p

\* s.substr(n), for n <= s.size()
Substr(s, n) == SubSeq(s, n + 1, Len(s))

\* d occurs in s
Contains(s, d) == \E i \in 0..(Len(s) - Len(d)) : SubSeq(s, i + 1, i + Len(d)) = d

----------------------------------------------------------------------------
(* nlohmann::json on the documents of this model *)

\* what the LLM may write after TOOL_CALL:
DOC_ECHO == <<"{\"tool_name\": \"echo\", \"reasoning\": \"r\", \"parameters\": {\"x\": 1}}">>
DOC_BADJSON == <<"{oops">>
DOC_NONAME == <<"{\"reasoning\": \"r\"}">>
DOC_BADREASON == <<"{\"tool_name\": \"echo\", \"reasoning\": 7}">>

V_ECHO == <<"{\"parameters\":{\"x\":1},\"reasoning\":\"r\",\"tool_name\":\"echo\"}">>
V_NONAME == <<"{\"reasoning\":\"r\"}">>
V_BADREASON == <<"{\"reasoning\":7,\"tool_name\":\"echo\"}">>
V_EMPTY_OBJECT == <<"{}">>

\* the bodies a client may POST to /chat, and their values
REQ_CHAT_U1 == <<"{\"message\": \"hi\", \"user_id\": \"u1\"}">>
REQ_CHAT_U2 == <<"{\"message\": \"hi\", \"user_id\": \"u2\"}">>
REQ_NO_MESSAGE == <<"{\"user_id\": \"u1\"}">>
REQ_NO_USER == <<"{\"message\": \"hi\"}">>
REQ_ARRAY == <<"[]">>
REQ_BAD_MESSAGE == <<"{\"message\": 7, \"user_id\": \"u1\"}">>
REQ_BAD_USER == <<"{\"message\": \"hi\", \"user_id\": 7}">>
REQ_MALFORMED == <<"{\"message\": ">>

V_CHAT_U1 == <<"{\"message\":\"hi\",\"user_id\":\"u1\"}">>
V_CHAT_U2 == <<"{\"message\":\"hi\",\"user_id\":\"u2\"}">>
V_NO_MESSAGE == <<"{\"user_id\":\"u1\"}">>
V_NO_USER == <<"{\"message\":\"hi\"}">>
V_ARRAY == <<"[]">>
V_BAD_MESSAGE == <<"{\"message\":7,\"user_id\":\"u1\"}">>
V_BAD_USER == <<"{\"message\":\"hi\",\"user_id\":7}">>

\* the chat frames a WebSocket client may send, and their values
WS_TEXT == <<"{\"text\":\"hi\"}">>
WS_START_U1 == <<"{\"type\":\"session_start\",\"user_id\":\"u1\",\"text\":\"hi\"}">>
WS_END_U1 == <<"{\"type\":\"session_end\",\"user_id\":\"u1\",\"text\":\"hi\"}">>
WS_MESSAGE_U1 == <<"{\"type\":\"message\",\"user_id\":\"u1\",\"text\":\"hi\"}">>
WS_NO_ACTIVE_U1 ==
    <<"{\"type\":\"session_no_active\",\"user_id\":\"u1\",\"text\":\"hi\"}">>
WS_BAD_TYPE == <<"{\"type\":7,\"user_id\":\"u1\",\"text\":\"hi\"}">>

V_WS_TEXT == <<"{\"text\":\"hi\"}">>
V_WS_START_U1 == <<"{\"text\":\"hi\",\"type\":\"session_start\",\"user_id\":\"u1\"}">>
V_WS_END_U1 == <<"{\"text\":\"hi\",\"type\":\"session_end\",\"user_id\":\"u1\"}">>
V_WS_MESSAGE_U1 == <<"{\"text\":\"hi\",\"type\":\"message\",\"user_id\":\"u1\"}">>
V_WS_NO_ACTIVE_U1 ==
    <<"{\"text\":\"hi\",\"type\":\"session_no_active\",\"user_id\":\"u1\"}">>
V_WS_BAD_TYPE == <<"{\"text\":\"hi\",\"type\":7,\"user_id\":\"u1\"}">>

JString(str) == [t |-> "string", str |-> <<str>>, json |-> <<"\"", str, "\"">>]
\* the string "hi", character by character
JHi == [t |-> "string", str |-> <<"h", "i">>, json |-> <<"\"", "h", "i", "\"">>]
JOther(type, doc) == [t |-> type, str |-> <<>>, json |-> <<doc>>]

\* nlohmann::json::parse: the value, or a parse_error
json_parse(text) ==
    CASE text = DOC_ECHO -> [ok |-> TRUE, value |-> V_ECHO]
      [] text = DOC_NONAME -> [ok |-> TRUE, value |-> V_NONAME]
      [] text = DOC_BADREASON -> [ok |-> TRUE, value |-> V_BADREASON]
      [] text = WS_TEXT -> [ok |-> TRUE, value |-> V_WS_TEXT]
      [] text = WS_START_U1 -> [ok |-> TRUE, value |-> V_WS_START_U1]
      [] text = WS_END_U1 -> [ok |-> TRUE, value |-> V_WS_END_U1]
      [] text = WS_MESSAGE_U1 -> [ok |-> TRUE, value |-> V_WS_MESSAGE_U1]
      [] text = WS_NO_ACTIVE_U1 -> [ok |-> TRUE, value |-> V_WS_NO_ACTIVE_U1]
      [] text = WS_BAD_TYPE -> [ok |-> TRUE, value |-> V_WS_BAD_TYPE]
      [] text = REQ_CHAT_U1 -> [ok |-> TRUE, value |-> V_CHAT_U1]
      [] text = REQ_CHAT_U2 -> [ok |-> TRUE, value |-> V_CHAT_U2]
      [] text = REQ_NO_MESSAGE -> [ok |-> TRUE, value |-> V_NO_MESSAGE]
      [] text = REQ_NO_USER -> [ok |-> TRUE, value |-> V_NO_USER]
      [] text = REQ_ARRAY -> [ok |-> TRUE, value |-> V_ARRAY]
      [] text = REQ_BAD_MESSAGE -> [ok |-> TRUE, value |-> V_BAD_MESSAGE]
      [] text = REQ_BAD_USER -> [ok |-> TRUE, value |-> V_BAD_USER]
      [] OTHER -> [ok |-> FALSE, value |-> JNULL]

\* the members of an object
Members(value) ==
    CASE value = V_ECHO ->
            [tool_name |-> JString("echo"), reasoning |-> JString("r"),
             parameters |-> JOther("object", "{\"x\":1}")]
      [] value = V_NONAME -> [reasoning |-> JString("r")]
      [] value = V_BADREASON ->
            [tool_name |-> JString("echo"), reasoning |-> JOther("number", "7")]
      [] value = V_WS_TEXT -> [text |-> JHi]
      [] value = V_WS_START_U1 ->
            [type |-> JString("session_start"), user_id |-> JString("u1"), text |-> JHi]
      [] value = V_WS_END_U1 ->
            [type |-> JString("session_end"), user_id |-> JString("u1"), text |-> JHi]
      [] value = V_WS_MESSAGE_U1 ->
            [type |-> JString("message"), user_id |-> JString("u1"), text |-> JHi]
      [] value = V_WS_NO_ACTIVE_U1 ->
            [type |-> JString("session_no_active"), user_id |-> JString("u1"), text |-> JHi]
      [] value = V_WS_BAD_TYPE ->
            [type |-> JOther("number", "7"), user_id |-> JString("u1"), text |-> JHi]
      [] value = V_CHAT_U1 -> [message |-> JHi, user_id |-> JString("u1")]
      [] value = V_CHAT_U2 -> [message |-> JHi, user_id |-> JString("u2")]
      [] value = V_NO_MESSAGE -> [user_id |-> JString("u1")]
      [] value = V_NO_USER -> [message |-> JHi]
      [] value = V_BAD_MESSAGE ->
            [message |-> JOther("number", "7"), user_id |-> JString("u1")]
      [] value = V_BAD_USER -> [message |-> JHi, user_id |-> JOther("number", "7")]
      [] OTHER -> [none |-> JOther("null", "null")]

\* basic_json::contains(key)
json_contains(value, key) == key \in DOMAIN Members(value)

\* an absent member reads as the empty string
json_get_string_Lenient(value, key) ==
    IF json_contains(value, key) /\ Members(value)[key].t = "string"
    THEN [ok |-> TRUE, str |-> Members(value)[key].str, what |-> <<>>]
    ELSE [ok |-> TRUE, str |-> <<>>, what |-> <<>>]

\* json[key] converted to std::string: the string, or a type_error (302) when the
\* member is absent (operator[] then inserts null) or is no string
json_get_string(value, key) ==
    IF json_contains(value, key) /\ Members(value)[key].t = "string"
    THEN [ok |-> TRUE, str |-> Members(value)[key].str, what |-> <<>>]
    ELSE [ok |-> FALSE, str |-> <<>>,
          what |-> <<"[json.exception.type_error.302] type must be string">>]

\* json.value(key, default) with a std::string default: the default when the key is
\* absent, a type_error (302) when the member is no string
json_value_string(value, key, default) ==
    IF ~json_contains(value, key)
    THEN [ok |-> TRUE, str |-> default, what |-> <<>>]
    ELSE json_get_string(value, key)

\* json.value(key, default) with a json default
json_value_json(value, key, default) ==
    IF json_contains(value, key) THEN Members(value)[key].json ELSE default

----------------------------------------------------------------------------
(* Service::execute_tool *)

\* what one MCP server may answer to tools/call
ToolOutcomes == {"ok", "http500"}

BODY_OK == <<"{\"result\":{\"ok\":true}}">>
BODY_STATUS == <<"{\"status\":\"success\"}">>
BODY_CONTENT == <<"{\"content\":[]}">>
BODY_EMPTY == <<"{}">>
BODY_BAD_STATUS == <<"{\"status\":1}">>
BODY_ERROR == <<"{\"message\":\"boom\",\"status\":\"error\"}">>

\* what a server may answer to tools/call: a body with `result`, with status "success",
\* with `content`, HTTP 500, a body with none of the three, a body whose status is a number,
\* a body that reports an error, no answer at all (http_exception), a 200 whose body is
\* no JSON
ToolAnswers == {"ok", "status_success", "content", "http500", "empty", "bad_status",
                "error_body", "transport", "bad_json"}

\* the fields of a json object that execute_tool reads
ToolResult(status, has_result, has_content, has_message, message, body) ==
    [status |-> status, has_result |-> has_result, has_content |-> has_content,
     has_message |-> has_message, message |-> message, body |-> body]

\* Service::execute_tool_on_server: the parsed body on 200, an error object otherwise
execute_tool_on_server(server_url, outcome) ==
    CASE outcome = "ok" -> ToolResult("none", TRUE, FALSE, FALSE, <<>>, BODY_OK)
      [] outcome = "status_success" -> ToolResult("success", FALSE, FALSE, FALSE, <<>>, BODY_STATUS)
      [] outcome = "content" -> ToolResult("none", FALSE, TRUE, FALSE, <<>>, BODY_CONTENT)
      [] outcome = "empty" -> ToolResult("none", FALSE, FALSE, FALSE, <<>>, BODY_EMPTY)
      [] outcome = "bad_status" -> ToolResult("number", FALSE, FALSE, FALSE, <<>>, BODY_BAD_STATUS)
      [] outcome = "error_body" ->
            ToolResult("error", FALSE, FALSE, TRUE, <<"boom">>, BODY_ERROR)
      [] outcome = "transport" ->
            ToolResult("error", FALSE, FALSE, TRUE,
                       <<"HTTP Exception: ", "Failed to connect">>, <<>>)
      [] outcome = "bad_json" ->
            ToolResult("error", FALSE, FALSE, TRUE,
                       <<"JSON extraction error: ", "Syntax error">>, <<>>)
      [] outcome = "bad_url" ->
            ToolResult("error", FALSE, FALSE, TRUE, <<"URI Exception: ", "invalid uri">>, <<>>)
      [] OTHER -> ToolResult("error", FALSE, FALSE, TRUE, <<"HTTP error: 500">>, <<>>)

\* result.value("status", "") throws when status is present and no string
StatusThrows(result) == result.status = "number"

\* the test of line 322, without its status part
Success_FieldsOnly(result) == result.has_result \/ result.has_content

\* the test of line 322
Success(result) == result.status = "success" \/ result.has_result \/ result.has_content

\* error_details.push_back of no entry (not the program's)
PushError_Skip(error_details, error_msg) == error_details

\* error_details.push_back(error_msg), lines 331 and 336
PushError(error_details, error_msg) == Append(error_details, error_msg)

\* the handler of line 333 takes every exception of the loop body: all of them derive
\* from std::exception
Catches(exception) == exception \in {"type_error"}

\* the error_msg pushed for a server whose call threw
ExceptionMsg(server_url) ==
    <<"Server: ", server_url, " - Exception: ",
      "[json.exception.type_error.302] type must be string, but is number">>

\* the error_msg pushed for a server whose answer is no success
ErrorMsg(server_url, result) ==
    <<"Server: ", server_url, " - ">> \o
    (IF result.has_message THEN <<"Message: ">> \o result.message ELSE <<"Unknown error">>)

\* std::to_string(i), for the few servers of this model
to_string(i) == CASE i = 1 -> "1" [] i = 2 -> "2" [] i = 3 -> "3" [] OTHER -> "n"

RECURSIVE DetailedMessage(_, _)
DetailedMessage(error_details, i) ==
    IF i > Len(error_details) THEN <<>>
    ELSE <<"\n", to_string(i), ". ">> \o error_details[i] \o DetailedMessage(error_details, i + 1)

RECURSIVE DumpDetails(_, _)
DumpDetails(error_details, i) ==
    IF i > Len(error_details) THEN <<>>
    ELSE (IF i > 1 THEN <<",">> ELSE <<>>) \o <<"\"">> \o error_details[i] \o <<"\"">>
         \o DumpDetails(error_details, i + 1)

\* the object returned when no server succeeded
ToolError(error_details) ==
    <<"{\"error_details\":[">> \o DumpDetails(error_details, 1) \o <<"],\"message\":\"">>
    \o <<"Tool not found or failed to execute. Details: ">>
    \o (IF error_details # <<>> THEN DetailedMessage(error_details, 1)
        ELSE <<"No servers available or discovered.">>)
    \o <<"\",\"status\":\"error\"}">>

\* the for loop of execute_tool from server i on: the value returned and the servers
\* contacted, in order
RECURSIVE TryServers(_, _, _, _, _)
TryServers(servers, outcomes, i, error_details, contacted) ==
    IF i > Len(servers)
    THEN [value |-> ToolError(error_details), contacted |-> contacted]
    ELSE LET result == execute_tool_on_server(servers[i], outcomes[i])
         IN IF StatusThrows(result)
            THEN TryServers(servers, outcomes, i + 1,
                            PushError(error_details, ExceptionMsg(servers[i])),
                            Append(contacted, servers[i]))
            ELSE IF Success(result)
            THEN [value |-> result.body, contacted |-> Append(contacted, servers[i])]
            ELSE TryServers(servers, outcomes, i + 1,
                            PushError(error_details, ErrorMsg(servers[i], result)),
                            Append(contacted, servers[i]))

execute_tool(servers, outcomes) == TryServers(servers, outcomes, 1, <<>>, <<>>)

----------------------------------------------------------------------------
(* The LLM *)

TXT_FINAL_HELLO == FINAL_PREFIX \o <<" ", "h", "e", "l", "l", "o">>
TXT_FINAL_ONLY == FINAL_PREFIX
TXT_THINK == <<"h", "m">>
TXT_TOOL_ECHO == TOOL_PREFIX \o DOC_ECHO
TXT_TOOL_BADJSON == TOOL_PREFIX \o DOC_BADJSON
TXT_TOOL_NONAME == TOOL_PREFIX \o DOC_NONAME
TXT_TOOL_BADREASON == TOOL_PREFIX \o DOC_BADREASON

LLMTexts == {TXT_FINAL_HELLO, TXT_FINAL_ONLY, TXT_THINK, TXT_TOOL_ECHO, TXT_TOOL_BADJSON,
             TXT_TOOL_NONAME, TXT_TOOL_BADREASON}

\* What call_gemini_with_tools may get from the endpoint.
\*   "none":    no 200, a transport error, or a body without candidates
\*   "noparts": a candidate whose content has no parts
\*   "badtext": parts[0] holds no string under "text" (a functionCall part)
\*   "text":    parts[0].text is the text
LLMAnswers ==
    {[kind |-> k, text |-> <<>>] : k \in {"none", "noparts", "badtext"}}
    \cup {[kind |-> "text", text |-> t] : t \in LLMTexts}

\* the answers an LLM may repeat for the rest of a loop
LLMTails ==
    {[kind |-> "text", text |-> t] : t \in {TXT_THINK, TXT_FINAL_HELLO}}

\* AgentLoopService::call_gemini_with_tools: the body handed to execute_agent_step
call_gemini_with_tools(api_key, answer) ==
    IF api_key = "" THEN [kind |-> "none", text |-> <<>>] ELSE answer

----------------------------------------------------------------------------
(* AgentLoopService::execute_agent_step *)

\* the numbering starts at 0 instead of 1
NewStep_FromZero(step_number) ==
    [step_number |-> step_number - 1, type |-> "UNSET", reasoning |-> <<>>,
     tool_name |-> <<>>, tool_parameters |-> JNULL, tool_result |-> JNULL]

NewStep(step_number) ==
    [step_number |-> step_number, type |-> "UNSET", reasoning |-> <<>>, tool_name |-> <<>>,
     tool_parameters |-> JNULL, tool_result |-> JNULL]

\* The TOOL_CALL branch (lines 157-188).  pushed: the step appended to the loop;
\* result: the string returned; contacted: the tool servers contacted;
\* executed: whether execute_tool was called.
ToolCallBranch(step, llm_response, servers, outcomes) ==
    LET json_str == Substr(llm_response, Len(TOOL_PREFIX))
        parsed == json_parse(json_str)
        tool_call == parsed.value
        name == json_get_string(tool_call, "tool_name")
        reasoning == json_value_string(tool_call, "reasoning", <<"No reasoning provided">>)
        parameters == json_value_json(tool_call, "parameters", V_EMPTY_OBJECT)
        Caught(s, what) ==
            [pushed |-> [s EXCEPT !.type = "THINKING",
                                  !.reasoning = <<"Error parsing tool call:", " ">> \o what],
             result |-> PARSE_FAILED, contacted |-> <<>>, executed |-> FALSE, threw |-> FALSE]
        step1 == [step EXCEPT !.type = "TOOL_CALL",
                              !.reasoning = <<"Decided to use tool based on analysis">>]
        step2 == [step1 EXCEPT !.tool_name = name.str]
        step3 == [step2 EXCEPT !.reasoning = reasoning.str, !.tool_parameters = parameters]
        ran == execute_tool(servers, outcomes)
    IN  IF ~parsed.ok
        THEN Caught(step1, <<"[json.exception.parse_error.101] parse error">>)
        ELSE IF ~name.ok THEN Caught(step1, name.what)
        ELSE IF ~reasoning.ok THEN Caught(step2, reasoning.what)
        ELSE [pushed |-> [step3 EXCEPT !.tool_result = ran.value],
              result |-> ran.value, contacted |-> ran.contacted, executed |-> TRUE,
              threw |-> FALSE]

\* execute_agent_step on the body `response` of the LLM call
execute_agent_step(response, step_number, servers, outcomes) ==
    LET step == NewStep(step_number)
        Plain(s, r) ==
            [pushed |-> s, result |-> r, contacted |-> <<>>, executed |-> FALSE,
             threw |-> FALSE]
    IN  IF response.kind = "badtext"
        THEN \* content["parts"][0]["text"].get<std::string>() throws; nothing is pushed
             [pushed |-> step, result |-> <<>>, contacted |-> <<>>, executed |-> FALSE,
              threw |-> TRUE]
        ELSE IF response.kind = "text"
        THEN LET llm_response == response.text
             IN IF StartsWith(llm_response, TOOL_PREFIX)
                THEN ToolCallBranch(step, llm_response, servers, outcomes)
                ELSE IF StartsWith(llm_response, FINAL_PREFIX)
                THEN Plain([step EXCEPT !.type = "RESPONSE",
                                        !.reasoning = <<"Decided to provide direct response">>],
                           llm_response)
                ELSE Plain([step EXCEPT !.type = "THINKING", !.reasoning = llm_response],
                           CONTINUE_ANALYSIS)
        ELSE \* fallback: no candidates, no content, no parts
             Plain([step EXCEPT !.type = "THINKING", !.reasoning = <<"Analyzing request...">>],
                   CONTINUE_ANALYSIS)

----------------------------------------------------------------------------
(* AppConfig, MemoryService, SessionService *)

\* The key handed to the agent loop (getGeminiApiKey): the current key of the rotation,
\* "" when no key is configured; the cursor moves on.
getGeminiApiKey(keys, index) ==
    IF keys = <<>>
    THEN [key |-> "", index |-> index]
    ELSE [key |-> keys[(index % Len(keys)) + 1], index |-> ((index % Len(keys)) + 1) % Len(keys)]

\* AppConfig::getCurrentGeminiApiKey, line 134: the position read from the cursor
KeyIndex(keys, current_key_index) == current_key_index % Len(keys)

\* AppConfig::getCurrentGeminiApiKey, line 135: the cursor written
NextIndex(keys, index) == (index + 1) % Len(keys)

\* the list of keys whose first position, 0 for the code, is position 1 here
KeyAt(keys, index) == keys[index + 1]

\* a lock that is never held (not the program's)
MutexFree_Never(cs) == TRUE

\* config_mutex is free: no thread is between the lock_guard of
\* getCurrentGeminiApiKey and its return
MutexFree(cs) == \A t \in DOMAIN cs : cs[t].pc \notin {"key_locked", "key_read"}

\* MemoryService::get_conversation: the entry of user_id, created empty when absent
get_conversation(convs, user_id) ==
    IF user_id \in DOMAIN convs THEN convs ELSE (user_id :> <<>>) @@ convs

\* add_message that puts the message in front (not the program's)
add_message_Front(convs, user_id, role, content, time) ==
    LET message == [role |-> role, content |-> content, timestamp |-> time]
        old == IF user_id \in DOMAIN convs THEN convs[user_id] ELSE <<>>
    IN  (user_id :> (<<message>> \o old)) @@ convs

\* MemoryService::add_message
add_message(convs, user_id, role, content, time) ==
    LET message == [role |-> role, content |-> content, timestamp |-> time]
        old == IF user_id \in DOMAIN convs THEN convs[user_id] ELSE <<>>
    IN  (user_id :> Append(old, message)) @@ convs

\* SessionService::is_session_active
is_session_active(sessions, user_id) ==
    user_id \in DOMAIN sessions /\ sessions[user_id].active

\* touch_session that revives an ended session (not the program's)
touch_session_Reactivate(sessions, user_id, time) ==
    IF user_id \in DOMAIN sessions
    THEN [sessions EXCEPT ![user_id].last_activity = time, ![user_id].active = TRUE]
    ELSE sessions

\* SessionService::touch_session
touch_session(sessions, user_id, time) ==
    IF user_id \in DOMAIN sessions /\ sessions[user_id].active
    THEN [sessions EXCEPT ![user_id].last_activity = time]
    ELSE sessions

\* SessionService::start_session
start_session(sessions, user_id, time) ==
    (user_id :> [user_id |-> user_id, start_time |-> time, last_activity |-> time,
                 active |-> TRUE]) @@ sessions

\* std::map::operator[] on the conversations: the entry of user_id is created when absent
Subscript(convs, user_id) ==
    IF user_id \in DOMAIN convs THEN convs ELSE (user_id :> <<>>) @@ convs

\* MemoryService::clear_conversation: the key is removed when present
clear_conversation(convs, user_id) ==
    IF user_id \in DOMAIN convs
    THEN [v \in (DOMAIN convs) \ {user_id} |-> convs[v]]
    ELSE convs

\* end_session that ends whatever it is given, creating the entry (not the program's)
end_session_Create(sessions, user_id) ==
    (user_id :> [user_id |-> user_id, start_time |-> 0, last_activity |-> 0,
                 active |-> FALSE]) @@ sessions

\* SessionService::end_session: a known session becomes inactive, nothing else changes
end_session(sessions, user_id) ==
    IF user_id \in DOMAIN sessions
    THEN [sessions EXCEPT ![user_id].active = FALSE]
    ELSE sessions

\* the user ids in the order in which std::map iterates them
UserOrder == <<"u1", "u2">>

\* the whole minutes between two instants (duration_cast<std::chrono::minutes>); the
\* clock of the model counts half minutes
ElapsedMinutes(from, to) == (to - from) \div 2

\* the test of cleanup_loop with > in place of >= (not the program's)
Expired_Strict(session, time, timeout) ==
    session.active /\ ElapsedMinutes(session.last_activity, time) > timeout

\* SessionService::cleanup_loop: the test made on one session
Expired(session, time, timeout) ==
    session.active /\ ElapsedMinutes(session.last_activity, time) >= timeout

\* SessionService::cleanup_loop, the part under the lock: the sessions afterwards and
\* expired_users, from the i-th user id on
RECURSIVE cleanup_sweep(_, _, _, _)
cleanup_sweep(sessions, time, timeout, i) ==
    IF i > Len(UserOrder) THEN [sessions |-> sessions, expired_users |-> <<>>]
    ELSE LET u == UserOrder[i]
         IN  IF u \in DOMAIN sessions /\ Expired(sessions[u], time, timeout)
             THEN LET rest == cleanup_sweep([sessions EXCEPT ![u].active = FALSE], time,
                                            timeout, i + 1)
                  IN  [rest EXCEPT !.expired_users = <<u>> \o @]
             ELSE cleanup_sweep(sessions, time, timeout, i + 1)

\* one thing the gateway sends or asks of the WebSocket server
Frame(op, conn, user_id, text) == [op |-> op, conn |-> conn, user_id |-> user_id, text |-> text]

\* WebSocketManager::broadcast, from the i-th user id on: the message is sent on the
\* connection of every registered user id, in the order of the map, up to the first
\* connection that is not open: there _server.send throws and broadcast has no handler
\* (lines 87-91), so the exception leaves the loop
RECURSIVE broadcast(_, _, _, _)
broadcast(connections, hs, message, i) ==
    IF i > Len(UserOrder) THEN <<>>
    ELSE IF UserOrder[i] \notin DOMAIN connections
    THEN broadcast(connections, hs, message, i + 1)
    ELSE IF hs[connections[UserOrder[i]]] # "open"
    THEN <<Frame("send_throws", connections[UserOrder[i]], UserOrder[i], message)>>
    ELSE <<Frame("send", connections[UserOrder[i]], UserOrder[i], message)>>
         \o broadcast(connections, hs, message, i + 1)

\* the exception of _server.send left broadcast
Thrown(sent) == sent # <<>> /\ sent[Len(sent)].op = "send_throws"

\* SessionService::broadcast_session_event for each of expired_users, from the i-th on
\* (cleanup_loop, lines 90-93). Neither function has a handler: an exception of
\* broadcast leaves the thread function of _cleanup_thread, and std::terminate ends
\* the process
RECURSIVE broadcast_session_event(_, _, _, _, _)
broadcast_session_event(type, expired_users, connections, hs, i) ==
    IF i > Len(expired_users) THEN <<>>
    ELSE LET sent == broadcast(connections, hs, type, 1)
         IN  <<Frame("broadcast", "", expired_users[i], type)>> \o sent
             \o (IF Thrown(sent)
                 THEN <<Frame("terminate", "", expired_users[i], type)>>
                 ELSE broadcast_session_event(type, expired_users, connections, hs, i + 1))

\* the process runs: no exception has left a thread
Running == \A i \in DOMAIN wire : wire[i].op # "terminate"

REGISTER_PREFIX == <<"r", "e", "g", "i", "s", "t", "e", "r", ":">>

\* the text frames the clients send
WsTexts == {REGISTER_PREFIX \o <<u>> : u \in Users} \cup {<<"ping">>, WS_TEXT}

\* what a value of a map indexed by handle or user id becomes when key is erased
Erase(map, key) == [k \in (DOMAIN map) \ {key} |-> map[k]]

\* the state of the three maps of the WebSocket manager
Registry(connections, connection_to_user, last_pong_time) ==
    [connections |-> connections, connection_to_user |-> connection_to_user,
     last_pong_time |-> last_pong_time]

\* WebSocketManager::disconnect, the close handler
disconnect(reg, conn) ==
    IF conn \in DOMAIN reg.connection_to_user
    THEN Registry(Erase(reg.connections, reg.connection_to_user[conn]),
                  Erase(reg.connection_to_user, conn),
                  Erase(reg.last_pong_time, conn))
    ELSE Registry(reg.connections, reg.connection_to_user, Erase(reg.last_pong_time, conn))

\* _server.send, _server.ping and _server.close throw on a connection that is not open;
\* every caller below catches the exception and goes on: nothing reaches the wire
OnOpen(hs, conn, frame) == IF hs[conn] = "open" THEN <<frame>> ELSE <<>>

\* WebSocketManager::on_message for a text frame: what is registered and what is sent
on_message(reg, hs, conn, message) ==
    IF message = <<"ping">>
    THEN [reg |-> reg, sent |-> OnOpen(hs, conn, Frame("send", conn, "", "pong"))]
    ELSE IF StartsWith(message, REGISTER_PREFIX)
         THEN LET user_id == Substr(message, 9)[1]
              IN  [reg |-> Registry((user_id :> conn) @@ reg.connections,
                                    (conn :> user_id) @@ reg.connection_to_user,
                                    reg.last_pong_time),
                   sent |-> OnOpen(hs, conn, Frame("send", conn, user_id, "registered"))]
         ELSE [reg |-> reg, sent |-> <<Frame("handler", conn, "", message[1])>>]

\* WebSocketManager::ping_clients, one pass of the for loop from the i-th user id on:
\* the states of the connections afterwards and what is put on the wire
RECURSIVE ping_clients(_, _, _, _, _)
ping_clients(reg, hs, time, timeout, i) ==
    IF i > Len(UserOrder) THEN [handles |-> hs, sent |-> <<>>]
    ELSE LET u == UserOrder[i]
         IN  IF u \notin DOMAIN reg.connections
             THEN ping_clients(reg, hs, time, timeout, i + 1)
             ELSE LET conn == reg.connections[u]
                      silent == /\ conn \in DOMAIN reg.last_pong_time
                                /\ time - reg.last_pong_time[conn] > timeout
                      frame == IF silent THEN Frame("close", conn, u, "No pong response")
                               ELSE Frame("ping", conn, u, "keepalive")
                      closed == IF silent /\ hs[conn] = "open"
                                THEN [hs EXCEPT ![conn] = "closing"] ELSE hs
                      rest == ping_clients(reg, closed, time, timeout, i + 1)
                  IN  [handles |-> rest.handles, sent |-> OnOpen(hs, conn, frame) \o rest.sent]

\* WebSocketManager::send_binary_to_client_by_id: what is put on the wire
send_binary_to_client_by_id(reg, hs, client_id) ==
    IF client_id \in DOMAIN reg.connections
    THEN OnOpen(hs, reg.connections[client_id],
                Frame("send_binary", reg.connections[client_id], client_id, "data"))
    ELSE <<Frame("client_not_found", "", client_id, "")>>

\* a JSON message the gateway sends, or fails to send, to one client
TextTo(op, conn, user_id, msg) ==
    [op |-> op, conn |-> conn, user_id |-> user_id, text |-> "json", msg |-> msg]

\* WebSocketManager::send_text_to_client_by_id, as send_binary_to_client_by_id: the
\* message is sent on the connection registered for client_id; the exception of
\* _server.send on a connection that is not open is caught and logged, a client_id
\* that is not registered is logged
send_text_to_client_by_id(reg, hs, client_id, message) ==
    IF client_id \in DOMAIN reg.connections
    THEN IF hs[reg.connections[client_id]] = "open"
         THEN <<TextTo("send_text", reg.connections[client_id], client_id, message)>>
         ELSE <<TextTo("send_failed", reg.connections[client_id], client_id, message)>>
    ELSE <<TextTo("client_not_found", "", client_id, message)>>

\* the type of the frame sent by response_callback (main.cpp line 291)
ReplyType(type) ==
    IF type \in {"session_start", "session_end", "session_no_active"} THEN type
    ELSE "response"

\* The frame a callback of the message handler sends (lines 290-294 and 309-313);
\* reply_to is no member of the frame: it is the position on the wire of the text
\* frame this one answers
ResponseMsg(type, user_id, text, reply_to) ==
    [type |-> type, user_id |-> user_id, text |-> text, reply_to |-> reply_to]

\* The message handler set in main (main.cpp lines 281-327) on a text frame: the
\* frame is no JSON or a member is no string (the exception is logged, line 325), or
\* an agent job is submitted for user_id, after start_session for session_start, with
\* end_session_callback for session_end and response_callback otherwise
MessageHandler(message) ==
    LET msg == json_parse(message)
        type == json_value_string(msg.value, "type", <<"message">>)
        user_id == json_value_string(msg.value, "user_id", <<"unknown">>)
        text == json_value_string(msg.value, "text", <<>>)
    IN  IF ~msg.ok \/ ~type.ok \/ ~user_id.ok \/ ~text.ok
        THEN [submitted |-> FALSE, type |-> "", user_id |-> "", text |-> <<>>,
              start |-> FALSE, callback |-> "none"]
        ELSE [submitted |-> TRUE, type |-> type.str[1], user_id |-> user_id.str[1],
              text |-> text.str,
              start |-> type.str[1] = "session_start",
              callback |-> IF type.str[1] = "session_end" THEN "end_session_callback"
                           ELSE "response_callback"]

\* What conversations[user_id].push_back(message) can leave behind when the thread found
\* `size` messages before it wrote.  MemoryService has no lock: when no other thread
\* touched the vector in between, the one outcome is add_message's; when another thread
\* did, the two calls race and the write may also land on the slot the thread saw free
\* (the other append is lost), or in a vector that was erased (the write is lost).
PushBackOutcomes(convs, user_id, size, role, content, time) ==
    IF user_id \notin DOMAIN convs
    THEN {convs}
    ELSE LET message == [role |-> role, content |-> content, timestamp |-> time]
             seen == IF size < Len(convs[user_id]) THEN size ELSE Len(convs[user_id])
         IN  {add_message(convs, user_id, role, content, time),
              (user_id :> Append(SubSeq(convs[user_id], 1, seen), message)) @@ convs}

\* the Consul name of the service behind a server url
ServiceName(url) == CASE url = "s1" -> "svc1" [] url = "s2" -> "svc2" [] OTHER -> "web"

\* a ServiceInfo as discover_services_from_consul fills it (lines 196-215); hostname
\* stands for the urls derived from the hostname tag
ServiceInfo(name, hostname, mcp) ==
    [id |-> name, name |-> name, mcp |-> mcp, mcp_url |-> hostname]

\* an entry of /v1/catalog/services with what /v1/health/service/<name> answers for it
CatalogEntry(name, hostname, mcp, health) ==
    [name |-> name, hostname |-> hostname, mcp |-> mcp, health |-> health]

\* the loop of lines 176-223 from entry i on: the services pushed; a health request
\* that throws ends the loop
RECURSIVE HealthyServices(_, _, _)
HealthyServices(entries, i, services) ==
    IF i > Len(entries) THEN services
    ELSE LET entry == entries[i]
         IN  IF entry.name = "consul" THEN HealthyServices(entries, i + 1, services)
             ELSE IF entry.health = "throws" THEN services
             ELSE IF entry.health # "ok" \/ entry.hostname = ""
             THEN HealthyServices(entries, i + 1, services)
             ELSE HealthyServices(entries, i + 1,
                                  Append(services,
                                         ServiceInfo(entry.name, entry.hostname, entry.mcp)))

\* Service::discover_services_from_consul: _services after the call.  The vector is
\* cleared first (line 156), whatever the store answers afterwards
discover_services_from_consul(answer) ==
    IF answer.status # "ok" THEN <<>> ELSE HealthyServices(answer.entries, 1, <<>>)

\* a tool of a tools/list answer
Tool(name, description) == [name |-> name, description |-> description]

TOOL_ECHO_A == Tool("echo", "a")
TOOL_ECHO_B == Tool("echo", "b")
TOOL_TIME == Tool("time", "c")

\* what a server answers to tools/list
Listing(kind, tools) == [kind |-> kind, tools |-> tools]

\* Service::discover_tools_from_server: the tools of a 200 answer with result.tools, no
\* tool for another answer; a request that throws is rethrown (line 281)
discover_tools_from_server(listing) ==
    [threw |-> listing.kind = "throws",
     tools |-> IF listing.kind = "listed" THEN listing.tools ELSE <<>>]

\* What the range-for of execute_tool reads at position index of _discovered_servers:
\* the entry when no thread wrote to the vector since the loop began; otherwise the
\* read races with clear() and push_back of discover_tools and finds the url of some
\* service, old or new, or the bytes of a destroyed string, no url at all
SlotOutcomes(servers, index, dirty) ==
    IF ~dirty THEN {servers[index]}
    ELSE {Servers[i] : i \in DOMAIN Servers} \cup {"garbage"}

\* What a caller that iterates the reference returned by get_conversation can read:
\* the sequence as returned when no thread wrote to it meanwhile; otherwise the
\* iteration races with the write and reads the old elements, the new ones or none
IterationOutcomes(convs, user_id, returned, dirty) ==
    IF ~dirty THEN {returned}
    ELSE {returned, <<>>} \cup (IF user_id \in DOMAIN convs THEN {convs[user_id]} ELSE {})

----------------------------------------------------------------------------
(* The chat jobs of the worker threads *)

NoLoop ==
    [user_id |-> "", user_message |-> <<>>, steps |-> <<>>, final_response |-> <<>>,
     start_time |-> 0, end_time |-> 0, completed |-> FALSE]

\* The completion callback handed to handle_chat_message_with_audio_async: the lambda
\* of ChatController::chat (kind "http", for the request `id`), the response_callback
\* or the end_session_callback of the WebSocket message handler (for the text frame
\* at position `id` of the wire, of type `type`), or a callback that does nothing
\* more (kind "none")
NoCallback == [kind |-> "none", id |-> 0, type |-> ""]

\* pc: where the worker is in handle_chat_message_with_audio / run_loop.
\* events and last_context record the calls the job made to the LLM and to the
\* tool executor and the context of its last prompt, for the properties; the code
\* keeps no such record.  A reply carries the events of its job.
IdleJob ==
    [pc |-> "idle", user_id |-> "", message |-> <<>>, tail |-> [kind |-> "none", text |-> <<>>],
     current_loop |-> NoLoop, step_number |-> 0, current_context |-> <<>>,
     response |-> <<>>, events |-> <<>>, last_context |-> <<>>, callback |-> NoCallback]

\* the context built at the start of process_with_tools (lines 71-77)
RECURSIVE HistoryText(_, _)
HistoryText(conversation, i) ==
    IF i > Len(conversation) THEN <<>>
    ELSE <<conversation[i].role, ": ">> \o conversation[i].content \o <<"\n">>
         \o HistoryText(conversation, i + 1)

BuildContext(conversation, user_message) ==
    <<"Conversation history:\n">> \o HistoryText(conversation, 1)
    \o <<"Current user message: ">> \o user_message \o <<"\n">>

\* run_loop does not test the key
KeyMissing_Never(api_key) == FALSE

\* api_key.empty() in run_loop (line 20)
KeyMissing(api_key) == api_key = ""

\* the cap is tested one step late
CapExceeded_OneLate(step_number) == step_number > MAX_STEPS + 1

\* the safety check of process_with_tools (line 102)
CapExceeded(step_number) == step_number > MAX_STEPS

\* the loop tests for the prefix followed by a blank
IsFinal_WithBlank(step_result) == StartsWith(step_result, FINAL_PREFIX \o <<" ">>)

\* step_result.find("FINAL_RESPONSE:") == 0 (line 90)
IsFinal(step_result) == StartsWith(step_result, FINAL_PREFIX)

\* the result of the step is not added to the context
AppendResult_Dropped(context, step_result) == context

\* current_context += "\nTool execution result: " + step_result + "\n" (line 98)
AppendResult(context, step_result) ==
    context \o <<"\nTool execution result: ">> \o step_result \o <<"\n">>

\* final_response = step_result.substr(15) (line 92)
StripFinalPrefix(step_result) == Substr(step_result, Len(FINAL_PREFIX))

\* One pass of the while loop of process_with_tools (lines 86-108) after
\* execute_agent_step returned r: the job with its pc set to "step" (loop again) or
\* "complete" (break, return final_response).
LoopBody(job, r) ==
    LET pushed == [job EXCEPT !.current_loop.steps = Append(@, r.pushed)]
    IN  IF IsFinal(r.result)
        THEN [pushed EXCEPT !.response = StripFinalPrefix(r.result), !.pc = "complete"]
        ELSE LET next == [pushed EXCEPT
                            !.current_context = AppendResult(@, r.result),
                            !.step_number = @ + 1]
             IN IF CapExceeded(next.step_number)
                THEN [next EXCEPT !.response = SAFETY_MESSAGE, !.pc = "complete"]
                ELSE next

\* the oldest loop is erased as soon as 10 loops are held
StoreLoop_CapNine(loops, loop) ==
    LET pushed == Append(loops, loop)
    IN  IF Len(pushed) >= MAX_LOOPS THEN Tail(pushed) ELSE pushed

\* each user has a capacity of 10: the oldest loop of the same user is erased
StoreLoop_PerUser(loops, loop) ==
    LET pushed == Append(loops, loop)
        own == {i \in DOMAIN pushed : pushed[i].user_id = loop.user_id}
        oldest == CHOOSE i \in own : \A j \in own : i <= j
    IN  IF Cardinality(own) > MAX_LOOPS
        THEN SubSeq(pushed, 1, oldest - 1) \o SubSeq(pushed, oldest + 1, Len(pushed))
        ELSE pushed

\* _agentLoops.push_back(loop), then erase(begin()) beyond 10 (lines 54-61)
StoreLoop(loops, loop) ==
    LET pushed == Append(loops, loop)
    IN  IF Len(pushed) > MAX_LOOPS THEN Tail(pushed) ELSE pushed

\* the calls of one execute_agent_step, in order: the LLM call with the body it
\* returned, the call of execute_tool with the value it returned, the requests to the
\* tool servers
StepEvents(response, r) ==
    <<[op |-> "llm", kind |-> response.kind, arg |-> response.text]>>
    \o (IF r.executed THEN <<[op |-> "execute_tool", kind |-> "", arg |-> r.result]>>
        ELSE <<>>)
    \o [i \in 1..Len(r.contacted) |->
            [op |-> "tools/call", kind |-> "", arg |-> <<r.contacted[i]>>]]

----------------------------------------------------------------------------
(* Actions *)

\* a completion callback that sends nothing
Callback_None(callback, user_id, text) == UNCHANGED <<http, _sessions, wire>>

\* The completion callback is called with the text of the response.
\*   "http": the lambda of ChatController::chat (lines 48-60) wraps the text and calls
\*           the callback of on_http with status 200, which dispatches the writing
\*           of the response to the io_service (GatewayServiceHttp.cpp lines 84-91)
\*   "response_callback", "end_session_callback": the callbacks of the WebSocket
\*           message handler (main.cpp lines 289-296 and 308-316), through the lambda
\*           of handle_chat_message_async (ChatService.cpp lines 90-94), up to the
\*           sending of the frame
Callback(callback, user_id, text) ==
    CASE callback.kind = "http" ->
            /\ http' = [http EXCEPT ![callback.id].dispatched =
                                        Append(@, [status |-> 200, response |-> text])]
            /\ UNCHANGED <<_sessions, wire>>
      [] callback.kind = "response_callback" ->
            /\ wire' = wire \o send_text_to_client_by_id(
                                   Registry(_connections, _connection_to_user,
                                            _last_pong_time),
                                   handles, user_id,
                                   ResponseMsg(ReplyType(callback.type), user_id, text,
                                               callback.id))
            /\ UNCHANGED <<http, _sessions>>
      [] callback.kind = "end_session_callback" ->
            /\ wire' = wire \o send_text_to_client_by_id(
                                   Registry(_connections, _connection_to_user,
                                            _last_pong_time),
                                   handles, user_id,
                                   ResponseMsg("session_end", user_id, text, callback.id))
            /\ UNCHANGED <<http, _sessions>>
      [] OTHER -> UNCHANGED <<http, _sessions, wire>>

\* the worker after the callback sent its frame: end_session_callback goes on to
\* session_service->end_session (main.cpp line 315), every other callback is over
AfterCallback(job) ==
    IF job.callback.kind = "end_session_callback"
    THEN [job EXCEPT !.pc = "end_session"]
    ELSE IdleJob

\* ChatService::handle_chat_message_with_audio_async: the task is enqueued
Submit(u, m) ==
    /\ env.chats_left > 0
    /\ env.quota[u] > 0
    /\ Len(task_queue) < MaxQueue
    /\ env' = [env EXCEPT !.chats_left = @ - 1, !.quota[u] = @ - 1]
    /\ task_queue' = Append(task_queue, [user_id |-> u, message |-> m,
                                         callback |-> NoCallback])
    /\ UNCHANGED <<http, tts, registryvars, config, gemini_api_keys, _current_key_index, conversations, _sessions,
                   _agentLoops, _discovered_servers, workers, replies, now>>
    /\ UNCHANGED <<gatewayvars, callers, log>>

\* A worker takes the oldest task and runs handle_chat_message_with_audio down to the
\* call of run_loop (ChatService.cpp lines 48-56)
ChatBegin(w) ==
    /\ w \in env.pool
    /\ workers[w].pc = "idle"
    /\ task_queue # <<>>
    /\ LET task == Head(task_queue)
           touched == touch_session(_sessions, task.user_id, now)
       IN  /\ _sessions' = IF is_session_active(touched, task.user_id)
                           THEN touched
                           ELSE start_session(touched, task.user_id, now)
           /\ conversations' = add_message(conversations, task.user_id, "user",
                                           task.message, now)
           /\ workers' = [workers EXCEPT ![w] =
                            [IdleJob EXCEPT !.pc = "run_loop", !.user_id = task.user_id,
                                            !.message = task.message,
                                            !.callback = task.callback]]
    /\ task_queue' = Tail(task_queue)
    /\ UNCHANGED <<http, tts, registryvars, config, gemini_api_keys, _current_key_index, _agentLoops, _discovered_servers,
                   replies, now, env>>
    /\ UNCHANGED <<gatewayvars, callers, log>>

\* run_loop up to the while loop of process_with_tools
\* (AgentLoopService.cpp lines 18-36 and 66-83)
RunLoopStart(w) ==
    /\ workers[w].pc = "run_loop"
    /\ LET job == workers[w]
           got == getGeminiApiKey(gemini_api_keys, _current_key_index)
           convs == get_conversation(conversations, job.user_id)
       IN  /\ _current_key_index' = got.index
           /\ IF KeyMissing(got.key)
              THEN /\ workers' = [workers EXCEPT ![w] =
                                    [job EXCEPT !.response = NO_KEY_MESSAGE, !.pc = "respond"]]
                   /\ UNCHANGED conversations
              ELSE /\ conversations' = convs
                   /\ \E tail \in env.tails :
                        workers' = [workers EXCEPT ![w] =
                            [job EXCEPT
                               !.pc = "step",
                               !.tail = tail,
                               !.current_loop =
                                   [NoLoop EXCEPT !.user_id = job.user_id,
                                                  !.user_message = job.message,
                                                  !.start_time = now],
                               !.step_number = 1,
                               !.current_context =
                                   BuildContext(convs[job.user_id], job.message)]]
    /\ UNCHANGED <<http, tts, registryvars, config, gemini_api_keys, _sessions, _agentLoops, _discovered_servers, task_queue,
                   replies, now, env>>
    /\ UNCHANGED <<gatewayvars, callers, log>>

\* One pass of the while loop: execute_agent_step with the LLM's answer and the tool
\* servers' answers, then the branch on its result
AgentStep(w) ==
    /\ workers[w].pc = "step"
    /\ LET job == workers[w]
           got == getGeminiApiKey(gemini_api_keys, _current_key_index)
       IN  /\ _current_key_index' = got.index
           /\ \E answer \in (IF env.free_answers > 0 THEN LLMAnswers ELSE {job.tail}),
                 outcomes \in [1..Len(_discovered_servers) -> ToolOutcomes] :
                LET response == call_gemini_with_tools(got.key, answer)
                    r == execute_agent_step(response, job.step_number,
                                            _discovered_servers, outcomes)
                    called == [job EXCEPT !.events = @ \o StepEvents(response, r),
                                          !.last_context = job.current_context]
                IN  workers' = [workers EXCEPT ![w] =
                        IF r.threw THEN [called EXCEPT !.pc = "thrown"]
                        ELSE LoopBody(called, r)]
    /\ env' = [env EXCEPT !.free_answers = IF @ > 0 THEN @ - 1 ELSE 0]
    /\ UNCHANGED <<http, tts, registryvars, config, gemini_api_keys, conversations, _sessions, _agentLoops,
                   _discovered_servers, task_queue, replies, now>>
    /\ UNCHANGED <<gatewayvars, callers, log>>

\* run_loop after process_with_tools returned (lines 38-63)
RunLoopComplete(w) ==
    /\ workers[w].pc = "complete"
    /\ LET job == workers[w]
           done == [job.current_loop EXCEPT !.end_time = now,
                                            !.final_response = job.response,
                                            !.completed = TRUE]
       IN  /\ _agentLoops' = StoreLoop(_agentLoops, done)
           /\ workers' = [workers EXCEPT ![w] =
                            [job EXCEPT !.current_loop = done, !.pc = "respond"]]
    /\ UNCHANGED <<http, tts, registryvars, config, gemini_api_keys, _current_key_index, conversations, _sessions,
                   _discovered_servers, task_queue, replies, now, env>>
    /\ UNCHANGED <<gatewayvars, callers, log>>

\* handle_chat_message_with_audio after run_loop returned, without TTS, and the
\* completion callback (ChatService.cpp lines 61-66 and 101-105)
ChatRespond(w) ==
    /\ workers[w].pc = "respond"
    /\ LET job == workers[w]
       IN  /\ conversations' = add_message(conversations, job.user_id, "assistant",
                                           job.response, now)
           /\ replies' = Append(replies, [user_id |-> job.user_id, message |-> job.message,
                                          text_response |-> job.response,
                                          events |-> job.events])
           /\ Callback(job.callback, job.user_id, job.response)
           /\ workers' = [workers EXCEPT ![w] = AfterCallback(job)]
    /\ UNCHANGED <<tts, registryvars, config, gemini_api_keys, _current_key_index, _agentLoops,
                   _discovered_servers, task_queue, now, env>>
    /\ UNCHANGED <<_connections, _connection_to_user, _last_pong_time, handles, callers, log>>

\* The exception of execute_agent_step leaves run_loop and
\* handle_chat_message_with_audio; the worker's catch calls the callback
\* (ChatService.cpp lines 106-112)
ChatThrown(w) ==
    /\ workers[w].pc = "thrown"
    /\ LET error_response == <<"Error processing request: ",
                               "[json.exception.type_error.302] type must be string">>
       IN  /\ replies' = Append(replies,
                                [user_id |-> workers[w].user_id,
                                 message |-> workers[w].message,
                                 text_response |-> error_response,
                                 events |-> workers[w].events])
           /\ Callback(workers[w].callback, workers[w].user_id, error_response)
    /\ workers' = [workers EXCEPT ![w] = AfterCallback(workers[w])]
    /\ UNCHANGED <<tts, registryvars, config, gemini_api_keys, _current_key_index, conversations,
                   _agentLoops, _discovered_servers, task_queue, now, env>>
    /\ UNCHANGED <<_connections, _connection_to_user, _last_pong_time, handles, callers, log>>

\* end_session_callback after its frame was sent: session_service->end_session
\* (main.cpp line 315)
EndSessionCallback(w) ==
    /\ workers[w].pc = "end_session"
    /\ _sessions' = end_session(_sessions, workers[w].user_id)
    /\ workers' = [workers EXCEPT ![w] = IdleJob]
    /\ UNCHANGED <<http, tts, registryvars, config, gemini_api_keys, _current_key_index, conversations,
                   _agentLoops, _discovered_servers, task_queue, replies, now, env>>
    /\ UNCHANGED <<gatewayvars, callers, log>>

----------------------------------------------------------------------------
(* Direct calls on the memory store and the session tracker *)

EmptyMap == [u \in {} |-> <<>>]

IdleCaller ==
    [pc |-> "idle", user_id |-> "", content |-> <<>>, size |-> 0, returned |-> <<>>,
     dirty |-> FALSE, index |-> 0]

\* one entry of the log of returned calls
Call(op, user_id, content, value, observed) ==
    [op |-> op, user_id |-> user_id, content |-> content, value |-> value,
     observed |-> observed]

\* the threads that iterate a reference to the conversation of u learn that it changed
Touched(cs, t, u) ==
    [x \in DOMAIN cs |->
        IF x # t /\ cs[x].pc = "iterating" /\ cs[x].user_id = u
        THEN [cs[x] EXCEPT !.dirty = TRUE] ELSE cs[x]]

\* MemoryService::add_message up to the write of push_back: conversations[user_id] is
\* looked up (and created), the vector's end is read
AddMessageBegin(t, u, c) ==
    /\ t \in env.pool
    /\ callers[t].pc = "idle"
    /\ env.ops_left > 0
    /\ env' = [env EXCEPT !.ops_left = @ - 1]
    /\ conversations' = Subscript(conversations, u)
    /\ callers' = [callers EXCEPT ![t] =
                     [IdleCaller EXCEPT !.pc = "push_back", !.user_id = u, !.content = c,
                                        !.size = Len(Subscript(conversations, u)[u])]]
    /\ UNCHANGED <<http, tts, registryvars, config, gemini_api_keys, _current_key_index, _sessions, _agentLoops,
                   _discovered_servers, task_queue, workers, replies, now, gatewayvars, log>>

\* MemoryService::add_message: the write of push_back, and the return
AddMessageEnd(t) ==
    /\ callers[t].pc = "push_back"
    /\ LET job == callers[t]
       IN  /\ conversations' \in PushBackOutcomes(conversations, job.user_id, job.size,
                                                  "user", job.content, now)
           /\ callers' = [Touched(callers, t, job.user_id) EXCEPT ![t] = IdleCaller]
           /\ log' = Append(log, Call("add_message", job.user_id, job.content, <<>>, <<>>))
    /\ UNCHANGED <<http, tts, registryvars, config, gemini_api_keys, _current_key_index, _sessions, _agentLoops,
                   _discovered_servers, task_queue, workers, replies, now, env, gatewayvars>>

\* MemoryService::get_conversation called by ChatController::getConversation, which
\* keeps the reference returned
GetConversation(t, u) ==
    /\ t \in env.pool
    /\ callers[t].pc = "idle"
    /\ env.ops_left > 0
    /\ env' = [env EXCEPT !.ops_left = @ - 1]
    /\ conversations' = get_conversation(conversations, u)
    /\ LET returned == get_conversation(conversations, u)[u]
       IN  /\ callers' = [callers EXCEPT ![t] =
                            [IdleCaller EXCEPT !.pc = "iterating", !.user_id = u,
                                               !.returned = returned]]
           /\ log' = Append(log, Call("get_conversation", u, <<>>, returned, <<>>))
    /\ UNCHANGED <<http, tts, registryvars, config, gemini_api_keys, _current_key_index, _sessions, _agentLoops,
                   _discovered_servers, task_queue, workers, replies, now, gatewayvars>>

\* ChatController::getConversation: the for loop over the reference
IterateConversation(t) ==
    /\ callers[t].pc = "iterating"
    /\ LET job == callers[t]
       IN  \E observed \in IterationOutcomes(conversations, job.user_id, job.returned,
                                             job.dirty) :
               log' = Append(log, Call("iterated", job.user_id, <<>>, job.returned, observed))
    /\ callers' = [callers EXCEPT ![t] = IdleCaller]
    /\ UNCHANGED <<http, tts, registryvars, config, gemini_api_keys, _current_key_index, conversations, _sessions, _agentLoops,
                   _discovered_servers, task_queue, workers, replies, now, env, gatewayvars>>

\* MemoryService::clear_conversation called by ChatController::clearConversation
ClearConversation(t, u) ==
    /\ t \in env.pool
    /\ callers[t].pc = "idle"
    /\ env.ops_left > 0
    /\ env' = [env EXCEPT !.ops_left = @ - 1]
    /\ conversations' = clear_conversation(conversations, u)
    /\ callers' = Touched(callers, t, u)
    /\ log' = Append(log, Call("clear_conversation", u, <<>>, <<>>, <<>>))
    /\ UNCHANGED <<http, tts, registryvars, config, gemini_api_keys, _current_key_index, _sessions, _agentLoops,
                   _discovered_servers, task_queue, workers, replies, now, gatewayvars>>

\* the last call made on the session tracker, with the sessions it found
SessionCall(op, user_id, before) ==
    [op |-> op, user_id |-> user_id, before |-> before, at |-> now, sent |-> Len(wire)]

NoCall == [op |-> "none", user_id |-> "", before |-> EmptyMap, at |-> 0, sent |-> 0]

\* SessionService::start_session (the session_start frame, main.cpp line 299)
StartSession(u) ==
    /\ env.session_ops > 0
    /\ env' = [env EXCEPT !.session_ops = @ - 1,
                           !.last_call = SessionCall("start_session", u, _sessions)]
    /\ _sessions' = start_session(_sessions, u, now)
    /\ UNCHANGED <<http, tts, registryvars, config, gemini_api_keys, _current_key_index, conversations, _agentLoops,
                   _discovered_servers, task_queue, workers, replies, now, gatewayvars,
                   callers, log>>

\* SessionService::end_session (the callback of a session_end frame, main.cpp line 315)
EndSession(u) ==
    /\ env.session_ops > 0
    /\ env' = [env EXCEPT !.session_ops = @ - 1,
                           !.last_call = SessionCall("end_session", u, _sessions)]
    /\ _sessions' = end_session(_sessions, u)
    /\ UNCHANGED <<http, tts, registryvars, config, gemini_api_keys, _current_key_index, conversations, _agentLoops,
                   _discovered_servers, task_queue, workers, replies, now, gatewayvars,
                   callers, log>>

\* SessionService::touch_session (ChatService.cpp lines 50 and 118)
TouchSession(u) ==
    /\ env.session_ops > 0
    /\ env' = [env EXCEPT !.session_ops = @ - 1,
                           !.last_call = SessionCall("touch_session", u, _sessions)]
    /\ _sessions' = touch_session(_sessions, u, now)
    /\ UNCHANGED <<http, tts, registryvars, config, gemini_api_keys, _current_key_index, conversations, _agentLoops,
                   _discovered_servers, task_queue, workers, replies, now, gatewayvars,
                   callers, log>>

\* Half a minute passes
Tick ==
    /\ now < env.last_instant
    /\ now' = now + 1
    /\ UNCHANGED <<http, tts, registryvars, config, gemini_api_keys, _current_key_index, conversations, _sessions, _agentLoops,
                   _discovered_servers, task_queue, workers, replies, env, gatewayvars,
                   callers, log>>

\* One pass of SessionService::cleanup_loop after its sleep: the sessions idle for the
\* timeout become inactive under the lock, then session_expired is broadcast for each
Sweep ==
    /\ Running
    /\ env.sweeps > 0
    /\ LET swept == cleanup_sweep(_sessions, now, env.timeout, 1)
       IN  /\ _sessions' = swept.sessions
           /\ wire' = wire \o broadcast_session_event("session_expired", swept.expired_users,
                                                      _connections, handles, 1)
    /\ env' = [env EXCEPT !.sweeps = @ - 1, !.last_call = SessionCall("sweep", "", _sessions)]
    /\ UNCHANGED <<http, tts, registryvars, config, gemini_api_keys, _current_key_index, conversations, _agentLoops,
                   _discovered_servers, task_queue, workers, replies, now, _connections,
                   _connection_to_user, _last_pong_time, handles, callers, log>>

----------------------------------------------------------------------------
(* The WebSocket manager *)

\* the last call made on the WebSocket manager, with what it found
GatewayCall(op, conn, user_id) ==
    [op |-> op, conn |-> conn, user_id |-> user_id,
     before |-> Registry(_connections, _connection_to_user, _last_pong_time),
     handles |-> handles, at |-> now, sent |-> Len(wire)]

\* the three maps become reg
SetRegistry(reg) ==
    /\ _connections' = reg.connections
    /\ _connection_to_user' = reg.connection_to_user
    /\ _last_pong_time' = reg.last_pong_time

\* WebSocketManager::connect, the open handler: the maps are left alone
Connect(c) ==
    /\ handles[c] = "none"
    /\ handles' = [handles EXCEPT ![c] = "open"]
    /\ env' = [env EXCEPT !.last_call = GatewayCall("connect", c, "")]
    /\ UNCHANGED <<http, tts, registryvars, config, gemini_api_keys, _current_key_index, conversations, _sessions, _agentLoops,
                   _discovered_servers, task_queue, workers, replies, now, _connections,
                   _connection_to_user, _last_pong_time, wire, callers, log>>

\* WebSocketManager::on_message: a text frame arrives on an open connection; a frame
\* that is neither ping nor a registration goes to the message handler
TextFrame(c, message) ==
    /\ handles[c] = "open"
    /\ env.frames > 0
    /\ LET r == on_message(Registry(_connections, _connection_to_user, _last_pong_time),
                           handles, c, message)
           handled == IF r.sent # <<>> /\ r.sent[1].op = "handler"
                      THEN MessageHandler(message)
                      ELSE MessageHandler(<<>>)
       IN  /\ SetRegistry(r.reg)
           /\ wire' = wire \o r.sent
           /\ IF handled.submitted
              THEN /\ Len(task_queue) < MaxQueue
                   /\ _sessions' = IF handled.start
                                   THEN start_session(_sessions, handled.user_id, now)
                                   ELSE _sessions
                   /\ task_queue' =
                          Append(task_queue,
                                 [user_id |-> handled.user_id, message |-> handled.text,
                                  callback |-> [kind |-> handled.callback,
                                                id |-> Len(wire) + 1,
                                                type |-> handled.type]])
              ELSE UNCHANGED <<_sessions, task_queue>>
    /\ env' = [env EXCEPT !.frames = @ - 1,
                          !.last_call = GatewayCall("on_message", c,
                                                    IF StartsWith(message, REGISTER_PREFIX)
                                                    THEN Substr(message, 9)[1] ELSE "")]
    /\ UNCHANGED <<http, tts, registryvars, config, gemini_api_keys, _current_key_index, conversations, _agentLoops,
                   _discovered_servers, workers, replies, now, handles,
                   callers, log>>

\* the pong handler (WebSocketManager.cpp lines 50-53)
Pong(c) ==
    /\ handles[c] = "open"
    /\ env.pongs > 0
    /\ _last_pong_time' = (c :> now) @@ _last_pong_time
    /\ env' = [env EXCEPT !.pongs = @ - 1, !.last_call = GatewayCall("pong", c, "")]
    /\ UNCHANGED <<http, tts, registryvars, config, gemini_api_keys, _current_key_index, conversations, _sessions, _agentLoops,
                   _discovered_servers, task_queue, workers, replies, now, _connections,
                   _connection_to_user, handles, wire, callers, log>>

\* The connection closes, by the client or after _server.close: the close handler runs
\* WebSocketManager::disconnect
Disconnect(c) ==
    /\ handles[c] \in {"open", "closing"}
    /\ handles' = [handles EXCEPT ![c] = "closed"]
    /\ SetRegistry(disconnect(Registry(_connections, _connection_to_user, _last_pong_time), c))
    /\ env' = [env EXCEPT !.last_call = GatewayCall("disconnect", c, "")]
    /\ UNCHANGED <<http, tts, registryvars, config, gemini_api_keys, _current_key_index, conversations, _sessions, _agentLoops,
                   _discovered_servers, task_queue, workers, replies, now, wire, callers, log>>

\* One pass of WebSocketManager::ping_clients after its sleep
PingSweep ==
    /\ Running
    /\ env.sweeps > 0
    /\ LET r == ping_clients(Registry(_connections, _connection_to_user, _last_pong_time),
                             handles, now, env.pong_timeout, 1)
       IN  /\ handles' = r.handles
           /\ wire' = wire \o r.sent
    /\ env' = [env EXCEPT !.sweeps = @ - 1, !.last_call = GatewayCall("ping_clients", "", "")]
    /\ UNCHANGED <<http, tts, registryvars, config, gemini_api_keys, _current_key_index, conversations, _sessions, _agentLoops,
                   _discovered_servers, task_queue, workers, replies, now, _connections,
                   _connection_to_user, _last_pong_time, callers, log>>

\* WebSocketManager::send_binary_to_client_by_id
SendTo(u) ==
    /\ env.sends > 0
    /\ wire' = wire \o send_binary_to_client_by_id(
                         Registry(_connections, _connection_to_user, _last_pong_time),
                         handles, u)
    /\ env' = [env EXCEPT !.sends = @ - 1,
                          !.last_call = GatewayCall("send_binary_to_client_by_id", "", u)]
    /\ UNCHANGED <<http, tts, registryvars, config, gemini_api_keys, _current_key_index, conversations, _sessions, _agentLoops,
                   _discovered_servers, task_queue, workers, replies, now, _connections,
                   _connection_to_user, _last_pong_time, handles, callers, log>>

\* The transcription handler of ChatService (ChatService.cpp lines 28-38): the payload
\* is broadcast to every registered client; the handler catches what broadcast throws
Transcription ==
    /\ Running
    /\ env.sends > 0
    /\ wire' = wire \o broadcast(_connections, handles, "transcription", 1)
    /\ env' = [env EXCEPT !.sends = @ - 1, !.last_call = GatewayCall("broadcast", "", "")]
    /\ UNCHANGED <<http, tts, registryvars, config, gemini_api_keys, _current_key_index,
                   conversations, _sessions, _agentLoops, _discovered_servers, task_queue,
                   workers, replies, now, _connections, _connection_to_user,
                   _last_pong_time, handles, callers, log>>

----------------------------------------------------------------------------
(* WebSocketManager: the threads that touch the connection maps. WebSocketManager
   has no mutex: no function below takes a lock *)

\* the thread of _server.run(), which runs on_message and the close handler
\* (WebSocketManager.cpp line 314)
EventLoop == "t1"

\* the functions that read _connections on another thread: ping_clients on
\* _ping_thread (line 304), broadcast on the cleanup thread of SessionService,
\* send_binary_to_client_by_id on a worker of the pool (ChatService.cpp line 73)
RegistryReads == {"ping_clients", "broadcast", "send_binary_to_client_by_id"}

\* what a function on the maps waits for before it touches them: nothing
RegistryFree(cs, t) == TRUE

\* the user ids of the map in the order of its iteration
Keys(connections) == SelectSeq(UserOrder, LAMBDA u : u \in DOMAIN connections)

\* the threads that are reading _connections learn that it was written
Written(cs) ==
    [x \in DOMAIN cs |->
        IF cs[x].pc = "reading" THEN [cs[x] EXCEPT !.dirty = TRUE] ELSE cs[x]]

\* What a loop over _connections, or a find, reads: the entries found at its start
\* when no thread wrote the map meanwhile; otherwise the read races with the write of
\* the red-black tree and reads the old entries, the new ones, or a part of them
ReadOutcomes(returned, connections, dirty) ==
    IF ~dirty THEN {returned}
    ELSE {returned, Keys(connections)}
         \cup {SubSeq(returned, 1, n) : n \in 0..Len(returned)}

\* on_message, line 199: _connections[user_id] = conn
RegisterBegin(c, u) ==
    /\ callers[EventLoop].pc = "idle"
    /\ RegistryFree(callers, EventLoop)
    /\ handles[c] = "open"
    /\ env.frames > 0
    /\ env' = [env EXCEPT !.frames = @ - 1]
    /\ _connections' = (u :> c) @@ _connections
    /\ callers' = [Written(callers) EXCEPT
                      ![EventLoop] = [IdleCaller EXCEPT !.pc = "registering",
                                                        !.user_id = u, !.returned = <<c>>]]
    /\ UNCHANGED <<http, tts, registryvars, config, gemini_api_keys, _current_key_index,
                   conversations, _sessions, _agentLoops, _discovered_servers, task_queue,
                   workers, replies, now, _connection_to_user, _last_pong_time, handles,
                   wire, log>>

\* on_message, lines 200-207: _connection_to_user[conn] = user_id, the confirmation
RegisterEnd ==
    /\ callers[EventLoop].pc = "registering"
    /\ LET c == callers[EventLoop].returned[1]
           u == callers[EventLoop].user_id
       IN  /\ _connection_to_user' = (c :> u) @@ _connection_to_user
           /\ wire' = wire \o OnOpen(handles, c, Frame("send", c, u, "registered"))
    /\ callers' = [callers EXCEPT ![EventLoop] = IdleCaller]
    /\ UNCHANGED <<http, tts, registryvars, config, gemini_api_keys, _current_key_index,
                   conversations, _sessions, _agentLoops, _discovered_servers, task_queue,
                   workers, replies, now, env, _connections, _last_pong_time, handles, log>>

\* the connection closes and the close handler runs disconnect, lines 76-79:
\* _connections.erase(user_id)
CloseBegin(c) ==
    /\ callers[EventLoop].pc = "idle"
    /\ RegistryFree(callers, EventLoop)
    /\ handles[c] = "open"
    /\ handles' = [handles EXCEPT ![c] = "closed"]
    /\ _connections' = IF c \in DOMAIN _connection_to_user
                       THEN Erase(_connections, _connection_to_user[c])
                       ELSE _connections
    /\ callers' = [(IF c \in DOMAIN _connection_to_user THEN Written(callers) ELSE callers)
                      EXCEPT ![EventLoop] = [IdleCaller EXCEPT !.pc = "disconnecting",
                                                               !.returned = <<c>>]]
    /\ UNCHANGED <<http, tts, registryvars, config, gemini_api_keys, _current_key_index,
                   conversations, _sessions, _agentLoops, _discovered_servers, task_queue,
                   workers, replies, now, env, _connection_to_user, _last_pong_time,
                   wire, log>>

\* disconnect, lines 80-84: the entries of the handle are erased
CloseEnd ==
    /\ callers[EventLoop].pc = "disconnecting"
    /\ LET c == callers[EventLoop].returned[1]
       IN  /\ _connection_to_user' = Erase(_connection_to_user, c)
           /\ _last_pong_time' = Erase(_last_pong_time, c)
    /\ callers' = [callers EXCEPT ![EventLoop] = IdleCaller]
    /\ UNCHANGED <<http, tts, registryvars, config, gemini_api_keys, _current_key_index,
                   conversations, _sessions, _agentLoops, _discovered_servers, task_queue,
                   workers, replies, now, env, _connections, handles, wire, log>>

\* thread t enters the loop over _connections of ping_clients (line 268) or of
\* broadcast (line 88), or the find of send_binary_to_client_by_id (line 109)
ReadBegin(t, op) ==
    /\ t # EventLoop
    /\ callers[t].pc = "idle"
    /\ RegistryFree(callers, t)
    /\ env.sends > 0
    /\ env' = [env EXCEPT !.sends = @ - 1]
    /\ callers' = [callers EXCEPT
                      ![t] = [IdleCaller EXCEPT
                                 !.pc = "reading", !.content = <<op>>,
                                 !.returned = Keys(_connections),
                                 !.dirty = (callers[EventLoop].pc # "idle")]]
    /\ UNCHANGED <<http, tts, registryvars, config, gemini_api_keys, _current_key_index,
                   conversations, _sessions, _agentLoops, _discovered_servers, task_queue,
                   workers, replies, now, gatewayvars, log>>

\* thread t leaves the loop or the find: the user ids it found
ReadEnd(t) ==
    /\ callers[t].pc = "reading"
    /\ \E seen \in ReadOutcomes(callers[t].returned, _connections, callers[t].dirty) :
          log' = Append(log, Call(callers[t].content[1], t, <<>>, seen,
                                  callers[t].returned))
    /\ callers' = [callers EXCEPT ![t] = IdleCaller]
    /\ UNCHANGED <<http, tts, registryvars, config, gemini_api_keys, _current_key_index,
                   conversations, _sessions, _agentLoops, _discovered_servers, task_queue,
                   workers, replies, now, env, gatewayvars>>

----------------------------------------------------------------------------
(* AppConfig: the rotation of the keys *)

\* AppConfig::getCurrentGeminiApiKey, line 129: the lock_guard takes config_mutex
KeyLock(t) ==
    /\ t \in env.pool
    /\ callers[t].pc = "idle"
    /\ env.key_calls > 0
    /\ MutexFree(callers)
    /\ env' = [env EXCEPT !.key_calls = @ - 1]
    /\ callers' = [callers EXCEPT ![t] = [IdleCaller EXCEPT !.pc = "key_locked"]]
    /\ UNCHANGED <<http, tts, registryvars, config, gemini_api_keys, _current_key_index, conversations, _sessions, _agentLoops,
                   _discovered_servers, task_queue, workers, replies, now, gatewayvars, log>>

\* lines 130-134: with no key "" is returned, otherwise the position is read
KeyRead(t) ==
    /\ callers[t].pc = "key_locked"
    /\ IF gemini_api_keys = <<>>
       THEN /\ callers' = [callers EXCEPT ![t] = IdleCaller]
            /\ log' = Append(log, Call("getCurrentGeminiApiKey", t, <<>>, <<"">>, <<>>))
       ELSE /\ callers' = [callers EXCEPT ![t] =
                             [@ EXCEPT !.pc = "key_read",
                                       !.index = KeyIndex(gemini_api_keys, _current_key_index)]]
            /\ UNCHANGED log
    /\ UNCHANGED <<http, tts, registryvars, config, gemini_api_keys, _current_key_index, conversations, _sessions, _agentLoops,
                   _discovered_servers, task_queue, workers, replies, now, env, gatewayvars>>

\* lines 135-137: the cursor is written, the key is returned, the lock is released
KeyReturn(t) ==
    /\ callers[t].pc = "key_read"
    /\ _current_key_index' = NextIndex(gemini_api_keys, callers[t].index)
    /\ log' = Append(log, Call("getCurrentGeminiApiKey", t, <<>>,
                               <<KeyAt(gemini_api_keys, callers[t].index)>>, <<>>))
    /\ callers' = [callers EXCEPT ![t] = IdleCaller]
    /\ UNCHANGED <<http, tts, registryvars, config, gemini_api_keys, conversations, _sessions, _agentLoops,
                   _discovered_servers, task_queue, workers, replies, now, env, gatewayvars>>

----------------------------------------------------------------------------
(* Service: execute_tool on a worker thread, discover_tools on the discovery thread *)

\* a call of execute_tool, for the properties: the list it found, the servers it
\* contacted with their answers, the value it returned, whether discover_tools wrote
\* to the list while the loop ran, the urls the loop body ran on with what came of
\* each, whether an exception left the call
ToolCall(servers, contacted, value, done, dirty) ==
    [op |-> "execute_tool", servers |-> servers, contacted |-> contacted,
     value |-> value, done |-> done, dirty |-> dirty, attempts |-> <<>>, threw |-> FALSE]

\* Service::execute_tool, lines 316-319: the range-for takes begin() and end() once
ExecuteToolBegin(t) ==
    /\ t \in env.pool
    /\ callers[t].pc = "idle"
    /\ env.tool_calls > 0
    /\ callers' = [callers EXCEPT ![t] =
                     [IdleCaller EXCEPT !.pc = "tool_loop", !.index = 1,
                                        !.size = Len(_discovered_servers)]]
    /\ env' = [env EXCEPT !.tool_calls = @ - 1,
                           !.last_call = ToolCall(_discovered_servers, <<>>, <<>>, FALSE, FALSE)]
    /\ UNCHANGED <<http, tts, registryvars, config, gemini_api_keys, _current_key_index, conversations, _sessions, _agentLoops,
                   _discovered_servers, task_queue, workers, replies, now, gatewayvars, log>>

\* lines 319-337: one pass of the loop body, on the server of the next position
ExecuteToolContact(t, server_url, answer) ==
    /\ callers[t].pc = "tool_loop"
    /\ callers[t].index <= callers[t].size
    /\ server_url \in SlotOutcomes(_discovered_servers, callers[t].index, callers[t].dirty)
    /\ LET call == env.last_call
           reached == server_url # "garbage"
           result == execute_tool_on_server(server_url, IF reached THEN answer ELSE "bad_url")
           contacted == IF reached
                        THEN Append(call.contacted, [server |-> server_url, answer |-> answer])
                        ELSE call.contacted
           attempts == Append(call.attempts,
                              [server |-> server_url,
                               answer |-> IF reached THEN answer ELSE "bad_url"])
           failed(error_msg) ==
               /\ callers' = [callers EXCEPT ![t] =
                                [@ EXCEPT !.index = @ + 1,
                                          !.content = PushError(@, error_msg)]]
               /\ env' = [env EXCEPT !.last_call =
                            [call EXCEPT !.contacted = contacted, !.attempts = attempts]]
       IN  IF StatusThrows(result)
           THEN IF Catches("type_error") THEN failed(ExceptionMsg(server_url))
                ELSE /\ callers' = [callers EXCEPT ![t] = IdleCaller]
                     /\ env' = [env EXCEPT !.last_call =
                                  [call EXCEPT !.contacted = contacted,
                                               !.attempts = attempts, !.threw = TRUE]]
           ELSE IF Success(result)
           THEN /\ callers' = [callers EXCEPT ![t] = IdleCaller]
                /\ env' = [env EXCEPT !.last_call =
                             [call EXCEPT !.contacted = contacted, !.attempts = attempts,
                                          !.value = result.body, !.done = TRUE]]
           ELSE failed(ErrorMsg(server_url, result))
    /\ UNCHANGED <<http, tts, registryvars, config, gemini_api_keys, _current_key_index, conversations, _sessions, _agentLoops,
                   _discovered_servers, task_queue, workers, replies, now, gatewayvars, log>>

\* lines 340-355: the loop is over, the error object is returned
ExecuteToolFail(t) ==
    /\ callers[t].pc = "tool_loop"
    /\ callers[t].index > callers[t].size
    /\ env' = [env EXCEPT !.last_call =
                 [@ EXCEPT !.value = ToolError(callers[t].content), !.done = TRUE]]
    /\ callers' = [callers EXCEPT ![t] = IdleCaller]
    /\ UNCHANGED <<http, tts, registryvars, config, gemini_api_keys, _current_key_index, conversations, _sessions, _agentLoops,
                   _discovered_servers, task_queue, workers, replies, now, gatewayvars, log>>

\* the getters that hand out a copy of a container of the catalog (lines 463-465 and
\* 475-477)
CatalogReads == {"get_available_tools", "get_tools_per_server"}

\* the loops of execute_tool and the copies of the getters that run while
\* discover_tools writes to the containers
Disturbed(cs) ==
    [t \in DOMAIN cs |-> IF cs[t].pc \in {"tool_loop"} \cup CatalogReads
                         THEN [cs[t] EXCEPT !.dirty = TRUE]
                         ELSE cs[t]]

\* what the discovery thread keeps for the properties while it is in discover_tools:
\* the tools, the servers and the per-server lists found by the call, the urls whose
\* tools/list threw so far
Refresh(tools, servers, per_server, failed) ==
    [tools |-> tools, servers |-> servers, per_server |-> per_server, failed |-> failed]

\* Service::discover_services_from_consul on the discovery thread
DiscoverServices(answer) ==
    /\ env.refreshes > 0
    /\ callers[env.discoverer].pc = "idle"
    /\ _services' = discover_services_from_consul(answer)
    /\ env' = [env EXCEPT !.refreshes = @ - 1,
                           !.last_good = IF answer.status = "ok" /\
                                            \A i \in DOMAIN answer.entries :
                                               answer.entries[i].health # "throws"
                                         THEN discover_services_from_consul(answer) ELSE @,
                           !.failed_refresh = ~(answer.status = "ok" /\
                                                \A i \in DOMAIN answer.entries :
                                                   answer.entries[i].health # "throws")]
    /\ UNCHANGED <<http, tts, _tools, _tools_per_server, config, gemini_api_keys, _current_key_index,
                   conversations, _sessions, _agentLoops, _discovered_servers, task_queue,
                   workers, replies, now, gatewayvars, callers, log>>

\* Service::discover_tools on the discovery thread, lines 231-233: the three
\* containers are cleared
DiscoverTools ==
    /\ env.discoveries > 0
    /\ callers[env.discoverer].pc = "idle"
    /\ _discovered_servers' = <<>>
    /\ _tools' = <<>>
    /\ _tools_per_server' = EmptyMap
    /\ callers' = [Disturbed(callers) EXCEPT ![env.discoverer] =
                     [IdleCaller EXCEPT !.pc = IF _services = <<>> THEN "idle" ELSE "discover",
                                        !.index = 1,
                                        !.returned = Refresh(_tools, _discovered_servers,
                                                             _tools_per_server, {})]]
    /\ env' = [env EXCEPT !.discoveries = @ - 1,
                           !.last_call = IF \E t \in env.pool : callers[t].pc = "tool_loop"
                                         THEN [@ EXCEPT !.dirty = TRUE] ELSE @]
    /\ UNCHANGED <<http, tts, _services, config, gemini_api_keys, _current_key_index, conversations, _sessions,
                   _agentLoops, task_queue, workers, replies, now, gatewayvars, log>>

\* lines 235-247: the next service is skipped when it is no MCP service; otherwise it
\* answers tools/list and its tools and url are pushed, or the request throws and the
\* service is left out
DiscoverServer(listing) ==
    /\ callers[env.discoverer].pc = "discover"
    /\ LET i == callers[env.discoverer].index
           service == _services[i]
           found == discover_tools_from_server(listing)
           listed == service.mcp /\ ~found.threw
           last == i >= Len(_services)
       IN  /\ _tools' = IF listed THEN _tools \o found.tools ELSE _tools
           /\ _discovered_servers' = IF listed THEN Append(_discovered_servers, service.mcp_url)
                                     ELSE _discovered_servers
           /\ _tools_per_server' = IF listed
                                   THEN (service.mcp_url :> found.tools) @@ _tools_per_server
                                   ELSE _tools_per_server
           /\ callers' = [(IF listed THEN Disturbed(callers) ELSE callers)
                            EXCEPT ![env.discoverer] =
                                [@ EXCEPT !.pc = IF last THEN "idle" ELSE "discover",
                                          !.index = i + 1,
                                          !.returned.failed =
                                              IF service.mcp /\ found.threw
                                              THEN @ \cup {service.mcp_url} ELSE @]]
           /\ env' = [env EXCEPT !.last_call =
                        IF listed /\ \E t \in env.pool : callers[t].pc = "tool_loop"
                        THEN [@ EXCEPT !.dirty = TRUE] ELSE @]
    /\ UNCHANGED <<http, tts, _services, config, gemini_api_keys, _current_key_index, conversations, _sessions,
                   _agentLoops, task_queue, workers, replies, now, gatewayvars, log>>

----------------------------------------------------------------------------
(* TTSService: synthesize_speech *)

\* TTSService::synthesize_speech, line 102
max_retries == 3

\* line 186
max_ping_pong_wait == 10

\* a message of the provider as receive() hands it over
TtsFrame(type, body) == [type |-> type, body |-> body]

TEXT_SUCCESS == TtsFrame("text", <<"{\"status\":\"success\"}">>)
TEXT_FAILURE == TtsFrame("text", <<"{\"status\":\"error\"}">>)
TEXT_JUNK == TtsFrame("text", <<"junk">>)
CLOSE_FRAME == TtsFrame("close", <<>>)
PING_FRAME == TtsFrame("ping", <<>>)
PONG_FRAME == TtsFrame("pong", <<>>)
BINARY_A == TtsFrame("binary", <<1>>)
BINARY_B == TtsFrame("binary", <<2, 3>>)

TtsFrames ==
    {TEXT_SUCCESS, TEXT_FAILURE, TEXT_JUNK, CLOSE_FRAME, PING_FRAME, PONG_FRAME, BINARY_A,
     BINARY_B}

\* nlohmann::json::parse of a text message and value("status", ""): the status, or
\* "throws" for a text that is no JSON; the text of a message is moved out by
\* extract_string, a second extraction yields the empty string
MetadataStatus(message) ==
    IF message.extracted THEN "throws"
    ELSE CASE message.body = TEXT_SUCCESS.body -> "success"
           [] message.body = TEXT_FAILURE.body -> "error"
           [] OTHER -> "throws"

\* _websocket_client->receive() followed by wait() and get(): the next message the
\* provider sent on this connection; when it sent no more, its close as a message or
\* an exception, and an exception from then on
Receive(script, ending) ==
    IF script # <<>>
    THEN [threw |-> FALSE, message |-> Head(script), script |-> Tail(script), ending |-> ending]
    ELSE IF ending = "close"
    THEN [threw |-> FALSE, message |-> CLOSE_FRAME, script |-> <<>>, ending |-> "error"]
    ELSE [threw |-> TRUE, message |-> CLOSE_FRAME, script |-> <<>>, ending |-> "error"]

\* no call of synthesize_speech
IdleTts ==
    [pc |-> "idle", attempt |-> 0, is_connected |-> FALSE,
     response_msg |-> [type |-> "none", body |-> <<>>, extracted |-> FALSE],
     ping_pong_count |-> 0, got_actual_response |-> FALSE, all_audio_data |-> <<>>,
     result |-> <<>>]

\* `continue` of the for loop (++attempt), taken where attempt < max_retries - 1
NextAttempt(call) == [call EXCEPT !.attempt = @ + 1, !.pc = "attempt"]

\* `continue` inside the switch of lines 189-350: the innermost loop around it is the
\* while of line 188, whose condition is tested next
ContinueWhile(call) == [call EXCEPT !.pc = "while_test"]

\* what is unchanged by the steps of synthesize_speech
NotTts ==
    UNCHANGED <<http, registryvars, config, gemini_api_keys, _current_key_index, conversations, _sessions,
                _agentLoops, _discovered_servers, task_queue, workers, replies, now,
                gatewayvars, callers, log>>

\* lines 103-124: the connection left open is closed, connect() is called; the
\* provider is ready and accepts, and will send `script` on this connection, or not
TtsConnect(connected, script, ending) ==
    /\ tts.pc = "attempt"
    /\ IF connected
       THEN /\ tts' = [tts EXCEPT !.pc = "request", !.is_connected = TRUE]
            /\ env' = [env EXCEPT !.script = script, !.ending = ending, !.sent = script,
                                   !.connections = @ + 1]
       ELSE /\ tts' = IF tts.attempt < max_retries - 1
                      THEN NextAttempt([tts EXCEPT !.is_connected = FALSE])
                      ELSE [tts EXCEPT !.is_connected = FALSE, !.pc = "returned",
                                       !.result = <<>>]
            /\ env' = [env EXCEPT !.script = <<>>, !.ending = "error", !.sent = <<>>]
    /\ NotTts

\* lines 126-181: the request is sent and the first message is awaited
TtsRequest ==
    /\ tts.pc = "request"
    /\ LET received == Receive(env.script, env.ending)
       IN  /\ env' = [env EXCEPT !.script = received.script, !.ending = received.ending]
           /\ tts' = IF received.threw
                      THEN IF tts.attempt < max_retries - 1 THEN NextAttempt(tts)
                           ELSE [tts EXCEPT !.pc = "catch"]
                      ELSE [tts EXCEPT !.pc = "while_test",
                                       !.response_msg = [type |-> received.message.type,
                                                         body |-> received.message.body,
                                                         extracted |-> FALSE],
                                       !.got_actual_response = FALSE,
                                       !.ping_pong_count = 0]
    /\ NotTts

\* line 188: the condition of the while loop
TtsWhileTest ==
    /\ tts.pc = "while_test"
    /\ tts' = [tts EXCEPT !.pc = IF ~tts.got_actual_response /\
                                     tts.ping_pong_count < max_ping_pong_wait
                                  THEN "dispatch" ELSE "after_while"]
    /\ UNCHANGED env
    /\ NotTts

\* lines 189-350: the switch on the type of response_msg, up to the next receive of
\* audio
TtsDispatch ==
    /\ tts.pc = "dispatch"
    /\ LET type == tts.response_msg.type
           retry == tts.attempt < max_retries - 1
           got == [tts EXCEPT !.got_actual_response = TRUE, !.pc = "while_test"]
           received == Receive(env.script, env.ending)
       IN  CASE type = "text" ->
                  /\ UNCHANGED env
                  /\ tts' = LET status == MetadataStatus(tts.response_msg)
                                extracted == [tts EXCEPT !.response_msg.extracted = TRUE]
                            IN  IF status = "throws" THEN [extracted EXCEPT !.pc = "catch"]
                                ELSE IF status = "success"
                                THEN [extracted EXCEPT !.pc = "audio", !.all_audio_data = <<>>]
                                ELSE [extracted EXCEPT !.got_actual_response = TRUE,
                                                       !.pc = "while_test"]
            [] type = "close" ->
                  /\ UNCHANGED env
                  /\ tts' = IF retry THEN ContinueWhile([tts EXCEPT !.is_connected = FALSE])
                            ELSE [got EXCEPT !.is_connected = FALSE]
            [] type \in {"ping", "pong"} ->
                  /\ env' = [env EXCEPT !.script = received.script,
                                         !.ending = received.ending]
                  /\ tts' = LET counted == [tts EXCEPT !.ping_pong_count = @ + 1]
                            IN  IF received.threw
                                THEN IF retry THEN ContinueWhile(counted)
                                     ELSE [counted EXCEPT !.got_actual_response = TRUE,
                                                          !.pc = "while_test"]
                                ELSE [counted EXCEPT !.pc = "while_test",
                                                     !.response_msg =
                                                         [type |-> received.message.type,
                                                          body |-> received.message.body,
                                                          extracted |-> FALSE]]
            [] OTHER ->
                  /\ UNCHANGED env
                  /\ tts' = IF retry THEN ContinueWhile(tts) ELSE got
    /\ NotTts

\* lines 201-261: one pass of the loop that receives the audio
TtsAudio ==
    /\ tts.pc = "audio"
    /\ LET received == Receive(env.script, env.ending)
           type == received.message.type
       IN  /\ env' = [env EXCEPT !.script = received.script, !.ending = received.ending]
           /\ tts' = IF received.threw
                      THEN IF tts.attempt < max_retries - 1 THEN tts
                           ELSE [tts EXCEPT !.pc = "audio_done"]
                      ELSE CASE type = "binary" ->
                                  [tts EXCEPT !.all_audio_data = @ \o received.message.body,
                                              !.pc = "audio_done"]
                             [] type = "close" -> [tts EXCEPT !.pc = "audio_done"]
                             [] OTHER -> tts
    /\ NotTts

\* lines 263-276: the audio is returned, or there is none
TtsAudioDone ==
    /\ tts.pc = "audio_done"
    /\ tts' = IF tts.all_audio_data # <<>>
              THEN [tts EXCEPT !.pc = "returned", !.result = tts.all_audio_data]
              ELSE IF tts.attempt < max_retries - 1 THEN ContinueWhile(tts)
              ELSE [tts EXCEPT !.got_actual_response = TRUE, !.pc = "while_test"]
    /\ UNCHANGED env
    /\ NotTts

\* lines 353-360 and 376-387: after the while loop; the attempt has failed
TtsAfterWhile ==
    /\ tts.pc = "after_while"
    /\ tts' = IF tts.attempt < max_retries - 1 THEN NextAttempt(tts)
              ELSE [tts EXCEPT !.pc = "returned", !.result = <<>>]
    /\ UNCHANGED env
    /\ NotTts

\* lines 361-374: the handler of the exceptions of an attempt
TtsCatch ==
    /\ tts.pc = "catch"
    /\ tts' = IF tts.attempt < max_retries - 1 THEN NextAttempt(tts)
              ELSE [tts EXCEPT !.pc = "after_while"]
    /\ UNCHANGED env
    /\ NotTts

----------------------------------------------------------------------------
(* GatewayService::on_http and ChatController::chat: POST /chat *)

\* The connection of one request, as websocketpp keeps it: the state of the response
\* (init, deferred, body_written), the status and the body set on it, how many times
\* a response was written to the client, and the lambdas dispatched to the io_service
\* for it that have not run yet
HttpConnection(request_body) ==
    [request_body |-> request_body, http_state |-> "init", status |-> 0, body |-> <<>>,
     written |-> 0, dispatched |-> <<>>]

\* con->defer_http_response()
defer_http_response(con) == [con EXCEPT !.http_state = "deferred"]

\* con->set_body(...); con->set_status(...)
SetResponse(con, body, status) == [con EXCEPT !.body = body, !.status = status]

\* con->send_http_response(): the response is written if it was deferred
send_http_response(con) ==
    IF con.http_state = "deferred"
    THEN [con EXCEPT !.http_state = "body_written", !.written = @ + 1]
    ELSE con

\* on_http returned: websocketpp writes the response unless the handler deferred it
\* or wrote it
HandlerReturned(con) ==
    IF con.http_state = "init"
    THEN [con EXCEPT !.http_state = "body_written", !.written = @ + 1]
    ELSE con

\* the test of line 20 with the member user_id forgotten
MissingField_MessageOnly(request) == ~json_contains(request, "message")

\* ChatController::chat line 20
MissingField(request) ==
    ~json_contains(request, "message") \/ ~json_contains(request, "user_id")

MISSING_FIELDS == <<"{\"error\":\"Missing 'message' or 'user_id'\"}">>

\* ChatController::chat on a request without a member tts: the callback is called
\* with status 400, or the conversion of a member to std::string throws, or the chat
\* is handed to handle_chat_message_with_audio_async
chat(request) ==
    IF MissingField(request)
    THEN [kind |-> "callback", status |-> 400, response |-> MISSING_FIELDS,
          message |-> <<>>, user_id |-> ""]
    ELSE LET message == json_get_string(request, "message")
             user_id == json_get_string(request, "user_id")
         IN  IF ~message.ok
             THEN [kind |-> "throws", status |-> 0, response |-> message.what,
                   message |-> <<>>, user_id |-> ""]
             ELSE IF ~user_id.ok
             THEN [kind |-> "throws", status |-> 0, response |-> user_id.what,
                   message |-> <<>>, user_id |-> ""]
             ELSE [kind |-> "async", status |-> 0, response |-> <<>>,
                   message |-> message.str, user_id |-> user_id.str[1]]

\* on_http for POST /chat (GatewayServiceHttp.cpp lines 79-98), run by the io_service
\* thread, so that a lambda dispatched by the handler itself runs at once
OnHttpChat(request_body) ==
    /\ env.posts > 0
    /\ Len(task_queue) < MaxQueue
    /\ LET con == HttpConnection(request_body)
           json_value == json_parse(request_body)
           deferred == defer_http_response(con)
           called == chat(json_value.value)
       IN  IF ~json_value.ok
           THEN /\ http' = Append(http, HandlerReturned(
                                SetResponse(con, <<"{\"error\":\"parse error\"}">>, 400)))
                /\ UNCHANGED task_queue
           ELSE CASE called.kind = "callback" ->
                       /\ http' = Append(http, HandlerReturned(send_http_response(
                                      SetResponse(deferred, called.response, called.status))))
                       /\ UNCHANGED task_queue
                  [] called.kind = "throws" ->
                       /\ http' = Append(http, HandlerReturned(
                                      SetResponse(deferred, called.response, 400)))
                       /\ UNCHANGED task_queue
                  [] called.kind = "async" ->
                       /\ http' = Append(http, HandlerReturned(deferred))
                       /\ task_queue' =
                              Append(task_queue,
                                     [user_id |-> called.user_id, message |-> called.message,
                                      callback |-> [kind |-> "http", id |-> Len(http) + 1,
                                                    type |-> ""]])
    /\ env' = [env EXCEPT !.posts = @ - 1]
    /\ UNCHANGED <<tts, registryvars, config, gemini_api_keys, _current_key_index, conversations,
                   _sessions, _agentLoops, _discovered_servers, workers, replies, now>>
    /\ UNCHANGED <<gatewayvars, callers, log>>

\* The io_service runs the lambda a worker dispatched (lines 86-90)
HttpRespond(id) ==
    /\ id \in DOMAIN http
    /\ http[id].dispatched # <<>>
    /\ LET response == Head(http[id].dispatched)
           con == [http[id] EXCEPT !.dispatched = Tail(@)]
       IN  http' = [http EXCEPT ![id] = send_http_response(
                                  SetResponse(con, response.response, response.status))]
    /\ UNCHANGED <<tts, registryvars, config, gemini_api_keys, _current_key_index, conversations,
                   _sessions, _agentLoops, _discovered_servers, task_queue, workers, replies,
                   now, env>>
    /\ UNCHANGED <<gatewayvars, callers, log>>

----------------------------------------------------------------------------
(* AppConfig and SystemController::updateConfig: the keys, the model, the prompt,
   the configuration file *)

\* AppConfig.hpp lines 48-57: the fields of a default-constructed AppConfig, besides
\* gemini_api_keys and _current_key_index
DefaultConfig ==
    [gemini_enabled |-> FALSE, gemini_model |-> "gemini-2.5-flash",
     gemini_system_prompt |-> "You are Lily, a helpful AI assistant.",
     config_file_path |-> ""]

\* lines 272-284 at startup: gemini_enabled after GEMINI_API_KEYS gave the list keys
Configured(keys) == [DefaultConfig EXCEPT !.gemini_enabled = (keys # <<>>)]

\* the whole AppConfig as one record
AppConfig(keys, current_key_index, rest) ==
    [gemini_api_keys |-> keys, _current_key_index |-> current_key_index,
     gemini_enabled |-> rest.gemini_enabled, gemini_model |-> rest.gemini_model,
     gemini_system_prompt |-> rest.gemini_system_prompt,
     config_file_path |-> rest.config_file_path]

\* the AppConfig becomes c
SetConfig(c) ==
    /\ gemini_api_keys' = c.gemini_api_keys
    /\ _current_key_index' = c._current_key_index
    /\ config' = [gemini_enabled |-> c.gemini_enabled, gemini_model |-> c.gemini_model,
                  gemini_system_prompt |-> c.gemini_system_prompt,
                  config_file_path |-> c.config_file_path]

\* JSON values: a string, a number, an array of strings and numbers, a member that
\* is not there
JStr(s) == [t |-> "string", s |-> s, items |-> <<>>]
JNum == [t |-> "number", s |-> "7", items |-> <<>>]
JArr(items) == [t |-> "array", s |-> "", items |-> items]
JAbsent == [t |-> "absent", s |-> "", items |-> <<>>]

\* a JSON object, of which only these three members are looked at
JConfig(keys, model, prompt) ==
    [gemini_api_keys |-> keys, gemini_model |-> model, gemini_system_prompt |-> prompt]

RECURSIVE StringsOf(_)
\* the loops of updateConfig, lines 53-57, and of loadFromFile, lines 307-311: the
\* elements that are strings, as strings
StringsOf(items) ==
    IF items = <<>> THEN <<>>
    ELSE (IF Head(items).t = "string" THEN <<Head(items).s>> ELSE <<>>)
         \o StringsOf(Tail(items))

\* the loop of lines 113-117 and 151-155: empty keys are skipped
NonEmptyKeys(keys) == SelectSeq(keys, LAMBDA key : key # "")

\* AppConfig::withGeminiApiKeys
withGeminiApiKeys(c, api_keys) ==
    [c EXCEPT !.gemini_api_keys = NonEmptyKeys(api_keys),
              !.gemini_enabled = (NonEmptyKeys(api_keys) # <<>>)]

\* AppConfig::setGeminiApiKeys
setGeminiApiKeys(c, keys) ==
    [c EXCEPT !.gemini_api_keys = NonEmptyKeys(keys),
              !.gemini_enabled = (NonEmptyKeys(keys) # <<>>),
              !._current_key_index = 0]

\* AppConfig::addGeminiApiKey
addGeminiApiKey(c, key) ==
    IF key # ""
    THEN [c EXCEPT !.gemini_api_keys = Append(@, key), !.gemini_enabled = TRUE]
    ELSE c

\* AppConfig::removeGeminiApiKey: std::remove takes every occurrence of key
removeGeminiApiKey(c, key) ==
    LET left == SelectSeq(c.gemini_api_keys, LAMBDA k : k # key)
    IN  [c EXCEPT !.gemini_api_keys = left,
                  !.gemini_enabled = (left # <<>>),
                  !._current_key_index = 0]

\* AppConfig::getCurrentGeminiApiKey under its lock: the key returned, the cursor moved
getCurrentGeminiApiKey(c) ==
    IF c.gemini_api_keys = <<>>
    THEN [config |-> c, key |-> ""]
    ELSE LET index == KeyIndex(c.gemini_api_keys, c._current_key_index)
         IN  [config |-> [c EXCEPT !._current_key_index =
                                       NextIndex(c.gemini_api_keys, index)],
              key |-> KeyAt(c.gemini_api_keys, index)]

RECURSIVE getline(_, _)
\* lines 276-282, std::getline(ss, key, ',') until it fails: the pieces between the
\* commas, the text after the last comma only when there is some. str is the value
\* in pieces, a piece is "," or a text without a comma, and no two texts are adjacent
getline(str, key) ==
    IF str = <<>> THEN (IF key = "" THEN <<>> ELSE <<key>>)
    ELSE IF Head(str) = "," THEN <<key>> \o getline(Tail(str), "")
    ELSE getline(Tail(str), Head(str))

\* AppConfig::loadFromEnvironment, lines 272-284: GEMINI_API_KEYS is set to value, or
\* it is not set
loadFromEnvironment(c, value) ==
    IF ~value.set THEN c
    ELSE LET keys == NonEmptyKeys(getline(value.str, ""))
         IN  [c EXCEPT !.gemini_api_keys = keys, !.gemini_enabled = (keys # <<>>)]

\* a file: it is there or not, it parses or not, its value when it does
NoFile == [exists |-> FALSE, ok |-> FALSE, value |-> JConfig(JAbsent, JAbsent, JAbsent)]
Malformed == [exists |-> TRUE, ok |-> FALSE, value |-> JConfig(JAbsent, JAbsent, JAbsent)]
FileOf(value) == [exists |-> TRUE, ok |-> TRUE, value |-> value]

\* AppConfig::loadFromFile. A parse error is thrown before anything is assigned; a
\* get<std::string>() of a member that is no string throws after the assignments
\* before it; line 321 catches both
loadFromFile(c, file) ==
    IF c.config_file_path = "" \/ ~file.exists \/ ~file.ok THEN c
    ELSE LET j == file.value
             c1 == IF j.gemini_api_keys.t = "array"
                   THEN [c EXCEPT !.gemini_api_keys = StringsOf(j.gemini_api_keys.items),
                                  !.gemini_enabled =
                                      (StringsOf(j.gemini_api_keys.items) # <<>>)]
                   ELSE c
             c2 == IF j.gemini_model.t = "string"
                   THEN [c1 EXCEPT !.gemini_model = j.gemini_model.s]
                   ELSE c1
         IN  IF j.gemini_model.t \notin {"absent", "string"} THEN c1
             ELSE IF j.gemini_system_prompt.t = "absent" THEN c2
             ELSE IF j.gemini_system_prompt.t # "string" THEN c2
             ELSE [c2 EXCEPT !.gemini_system_prompt = j.gemini_system_prompt.s]

RECURSIVE JStrings(_)
\* a list of strings as JSON
JStrings(keys) ==
    IF keys = <<>> THEN <<>> ELSE <<JStr(Head(keys))>> \o JStrings(Tail(keys))

\* lines 330-336: the document that saveToFile writes
Dump(c) ==
    FileOf(JConfig(JArr(JStrings(c.gemini_api_keys)), JStr(c.gemini_model),
                   JStr(c.gemini_system_prompt)))

\* AppConfig::saveToFile, the file can be opened: the file afterwards
saveToFile(c, file) == IF c.config_file_path = "" THEN file ELSE Dump(c)

\* what POST /config did: the configuration and the file afterwards, the fields that
\* were set, whether saveToFile was called, the body of the answer
ConfigResult(c, file, applied, saved, message) ==
    [config |-> c, file |-> file, applied |-> applied, saved |-> saved,
     message |-> message]

\* SystemController::updateConfig within the try of GatewayServiceHttp.cpp lines
\* 35-42: setGeminiModel and setGeminiSystemPrompt take a std::string, and the
\* conversion of a member that is no string throws type_error, which line 39 answers
updateConfig(c, file, body) ==
    LET keys == StringsOf(body.gemini_api_keys.items)
        setsKeys == body.gemini_api_keys.t = "array" /\ keys # <<>>
        hasModel == body.gemini_model.t # "absent"
        hasPrompt == body.gemini_system_prompt.t # "absent"
        c1 == IF setsKeys THEN setGeminiApiKeys(c, keys) ELSE c
        a1 == IF setsKeys THEN {"gemini_api_keys"} ELSE {}
        c2 == IF hasModel THEN [c1 EXCEPT !.gemini_model = body.gemini_model.s] ELSE c1
        a2 == IF hasModel THEN a1 \cup {"gemini_model"} ELSE a1
        c3 == IF hasPrompt
              THEN [c2 EXCEPT !.gemini_system_prompt = body.gemini_system_prompt.s]
              ELSE c2
        a3 == IF hasPrompt THEN a2 \cup {"gemini_system_prompt"} ELSE a2
    IN  IF hasModel /\ body.gemini_model.t # "string"
        THEN ConfigResult(c1, file, a1, FALSE, "error")
        ELSE IF hasPrompt /\ body.gemini_system_prompt.t # "string"
        THEN ConfigResult(c2, file, a2, FALSE, "error")
        ELSE IF a3 # {}
        THEN ConfigResult(c3, saveToFile(c3, file), a3, TRUE, "Configuration updated")
        ELSE ConfigResult(c3, file, a3, FALSE, "No changes")

\* a call on the AppConfig, for the properties: the AppConfig and the file before it,
\* its argument, the key or the message it returned, the fields that were set
ConfigCall(op, body, key, applied, saved, message) ==
    [op |-> op, body |-> body, key |-> key, applied |-> applied, saved |-> saved,
     message |-> message,
     before |-> AppConfig(gemini_api_keys, _current_key_index, config),
     file |-> env.file]

ConfigRest ==
    UNCHANGED <<http, tts, registryvars, conversations, _sessions, _agentLoops,
                _discovered_servers, task_queue, workers, replies, now, gatewayvars,
                callers, log>>

\* a call of op that leaves the AppConfig as c
Mutate(op, c) ==
    /\ env.config_ops > 0
    /\ MutexFree(callers)
    /\ SetConfig(c)
    /\ env' = [env EXCEPT !.config_ops = @ - 1,
                          !.last_call = ConfigCall(op, JConfig(JAbsent, JAbsent, JAbsent),
                                                   "", {}, FALSE, "")]
    /\ ConfigRest

SetConfigFilePath(path) ==
    Mutate("setConfigFilePath",
           [AppConfig(gemini_api_keys, _current_key_index, config)
               EXCEPT !.config_file_path = path])

SetGeminiApiKeys(keys) ==
    Mutate("setGeminiApiKeys",
           setGeminiApiKeys(AppConfig(gemini_api_keys, _current_key_index, config), keys))

WithGeminiApiKeys(keys) ==
    Mutate("withGeminiApiKeys",
           withGeminiApiKeys(AppConfig(gemini_api_keys, _current_key_index, config), keys))

AddGeminiApiKey(key) ==
    /\ Len(gemini_api_keys) < MaxKeys
    /\ Mutate("addGeminiApiKey",
              addGeminiApiKey(AppConfig(gemini_api_keys, _current_key_index, config), key))

RemoveGeminiApiKey(key) ==
    Mutate("removeGeminiApiKey",
           removeGeminiApiKey(AppConfig(gemini_api_keys, _current_key_index, config), key))

LoadFromEnvironment(value) ==
    Mutate("loadFromEnvironment",
           loadFromEnvironment(AppConfig(gemini_api_keys, _current_key_index, config),
                               value))

LoadFromFile ==
    Mutate("loadFromFile",
           loadFromFile(AppConfig(gemini_api_keys, _current_key_index, config), env.file))

\* a thread asks for the current key
GetCurrentGeminiApiKey ==
    /\ env.config_ops > 0
    /\ MutexFree(callers)
    /\ LET r == getCurrentGeminiApiKey(
                    AppConfig(gemini_api_keys, _current_key_index, config))
       IN  /\ SetConfig(r.config)
           /\ env' = [env EXCEPT !.config_ops = @ - 1,
                                 !.last_call =
                                     ConfigCall("getCurrentGeminiApiKey",
                                                JConfig(JAbsent, JAbsent, JAbsent),
                                                r.key, {}, FALSE, "")]
    /\ ConfigRest

\* POST /config with a body that parses
PostConfig(body) ==
    /\ env.config_ops > 0
    /\ LET r == updateConfig(AppConfig(gemini_api_keys, _current_key_index, config),
                             env.file, body)
       IN  /\ SetConfig(r.config)
           /\ env' = [env EXCEPT !.config_ops = @ - 1,
                                 !.file = r.file,
                                 !.last_call = ConfigCall("updateConfig", body, "",
                                                          r.applied, r.saved, r.message)]
    /\ ConfigRest

----------------------------------------------------------------------------
(* Service: the getters of the tool catalog while discover_tools rebuilds it *)

\* the container a getter copies
CatalogOf(op, tools, per_server) ==
    IF op = "get_available_tools" THEN tools ELSE per_server

\* What the copy constructor of a getter hands out: the container as it was when the
\* copy began if no thread wrote to it meanwhile; otherwise the copy races with
\* clear() and the insertions of discover_tools and holds the elements read before
\* the write, those found after it, or none
CopyOutcomes(returned, current, dirty) ==
    IF ~dirty THEN {returned} ELSE {returned, current, <<>>}

\* Service::get_available_tools and Service::get_tools_per_server, called from a
\* worker or a handler thread: the copy of the member begins, no lock is taken
GetCatalogBegin(t, op) ==
    /\ t \in env.pool
    /\ callers[t].pc = "idle"
    /\ env.reads > 0
    /\ callers' = [callers EXCEPT ![t] =
                     [IdleCaller EXCEPT !.pc = op, !.index = env.discoveries,
                                        !.returned = CatalogOf(op, _tools, _tools_per_server)]]
    /\ env' = [env EXCEPT !.reads = @ - 1]
    /\ UNCHANGED <<http, tts, registryvars, config, gemini_api_keys, _current_key_index,
                   conversations, _sessions, _agentLoops, _discovered_servers, task_queue,
                   workers, replies, now, gatewayvars, log>>

\* the copy is complete and returned.  The log keeps, for the properties, the catalog
\* the last refresh began from when a refresh was under way during the call, the
\* rounds of discovery left when the call began and when it ended, and whether
\* discover_tools wrote to the container during the copy
GetCatalogEnd(t) ==
    /\ callers[t].pc \in CatalogReads
    /\ LET op == callers[t].pc
           discovery == callers[env.discoverer]
       IN  \E value \in CopyOutcomes(callers[t].returned,
                                     CatalogOf(op, _tools, _tools_per_server),
                                     callers[t].dirty) :
              log' = Append(log,
                        Call(op, "", <<>>, value,
                             [before |-> IF discovery.pc = "discover" \/ callers[t].dirty
                                         THEN CatalogOf(op, discovery.returned.tools,
                                                        discovery.returned.per_server)
                                         ELSE value,
                              began |-> callers[t].index, ended |-> env.discoveries,
                              refreshing |-> discovery.pc = "discover",
                              dirty |-> callers[t].dirty]))
    /\ callers' = [callers EXCEPT ![t] = IdleCaller]
    /\ UNCHANGED <<http, tts, registryvars, config, gemini_api_keys, _current_key_index,
                   conversations, _sessions, _agentLoops, _discovered_servers, task_queue,
                   workers, replies, now, env, gatewayvars>>

----------------------------------------------------------------------------
(* AgentLoopService: get_last_agent_loop beside the workers that store loops *)

\* a loop as run_loop stores it once process_with_tools returned
StoredLoop(user_id, user_message, final_response) ==
    [NoLoop EXCEPT !.user_id = user_id, !.user_message = user_message,
                   !.final_response = final_response, !.completed = TRUE]

LOOP_A == StoredLoop("u1", <<"a">>, <<"x">>)
LOOP_B == StoredLoop("u2", <<"b">>, <<"y">>)

\* the bytes of a destroyed AgentLoop
FREED_LOOP == StoredLoop("garbage", <<>>, <<>>)

\* AgentLoopService::get_last_agent_loop, lines 353-358: under _agentLoopsMutex, a
\* reference to the static empty loop or to the last element of the vector
get_last_agent_loop(loops) ==
    IF loops = <<>> THEN NoLoop ELSE loops[Len(loops)]

\* What the caller reads through the reference once the lock is released: the loop
\* returned when no worker stored a loop meanwhile or when the reference is to the
\* static empty loop; otherwise push_back may have moved the elements to a new
\* allocation and erase(begin()) has shifted them by one, so the caller reads the loop
\* returned, the loop that took its place, members of both, or freed memory
LoopOutcomes(returned, loops, dirty) ==
    IF ~dirty \/ returned = NoLoop THEN {returned}
    ELSE LET last == get_last_agent_loop(loops)
         IN  {returned, last, [returned EXCEPT !.final_response = last.final_response],
              FREED_LOOP}

\* run_loop, lines 53-61, on a worker whose loop is complete: the loop is pushed and
\* the oldest one erased beyond 10, under _agentLoopsMutex.  The references handed out
\* by get_last_agent_loop are not protected by the lock
StoreAgentLoop(loop) ==
    /\ env.stores > 0
    /\ _agentLoops' = StoreLoop(_agentLoops, loop)
    /\ callers' = [t \in DOMAIN callers |->
                     IF callers[t].pc = "last_loop" THEN [callers[t] EXCEPT !.dirty = TRUE]
                     ELSE callers[t]]
    /\ env' = [env EXCEPT !.stores = @ - 1]
    /\ UNCHANGED <<http, tts, registryvars, config, gemini_api_keys, _current_key_index,
                   conversations, _sessions, _discovered_servers, task_queue, workers,
                   replies, now, gatewayvars, log>>

\* ChatController::getAgentLoops, line 67: the call of get_last_agent_loop returns
GetLastAgentLoop(t) ==
    /\ t \in env.pool
    /\ callers[t].pc = "idle"
    /\ env.reads > 0
    /\ callers' = [callers EXCEPT ![t] =
                     [IdleCaller EXCEPT !.pc = "last_loop", !.size = Len(_agentLoops),
                                        !.returned = get_last_agent_loop(_agentLoops)]]
    /\ env' = [env EXCEPT !.reads = @ - 1]
    /\ UNCHANGED <<http, tts, registryvars, config, gemini_api_keys, _current_key_index,
                   conversations, _sessions, _agentLoops, _discovered_servers, task_queue,
                   workers, replies, now, gatewayvars, log>>

\* ChatController::getAgentLoops, lines 70-87: the members are read through the
\* reference and the answer is built; exists is false for an empty user_id
GetAgentLoops(t) ==
    /\ callers[t].pc = "last_loop"
    /\ \E value \in LoopOutcomes(callers[t].returned, _agentLoops, callers[t].dirty) :
          log' = Append(log, Call("get_last_agent_loop", "", <<>>, value,
                                  [returned |-> callers[t].returned,
                                   size |-> callers[t].size,
                                   dirty |-> callers[t].dirty,
                                   exists |-> value.user_id # ""]))
    /\ callers' = [callers EXCEPT ![t] = IdleCaller]
    /\ UNCHANGED <<http, tts, registryvars, config, gemini_api_keys, _current_key_index,
                   conversations, _sessions, _agentLoops, _discovered_servers, task_queue,
                   workers, replies, now, env, gatewayvars>>

----------------------------------------------------------------------------
(* The STT (Echo) client: on_echo_message and the echo message handler of main *)

\* a decoded text frame of the STT service: {type, text, client_id?}; addressed is
\* whether the member client_id is there
EchoMessage(type, text, addressed, client_id) ==
    [type |-> type, text |-> text, addressed |-> addressed, client_id |-> client_id]

\* The handler main gives to set_echo_message_handler (main.cpp lines 331-373): an
\* interim or a final message is broadcast as a transcription, and a final one is then
\* handed to handle_chat_message_async for "default_user"; the handler does not look
\* at client_id.  What broadcast throws is caught at line 370, past the chat call
echo_message_handler(connections, hs, message) ==
    LET sent == IF message.type \in {"interim", "final"}
                THEN broadcast(connections, hs, "transcription", 1) ELSE <<>>
    IN  [sent |-> sent, chat |-> message.type = "final" /\ ~Thrown(sent)]

\* WebSocketManager::on_echo_message (lines 430-453): the payload is forwarded to the
\* connection registered under client_id, if there is one, and the handler is called
\* for every message; an exception of _server.send is caught at line 450, past the
\* handler call
on_echo_message(connections, hs, message) ==
    LET found == message.addressed /\ message.client_id \in DOMAIN connections
        conn == connections[message.client_id]
    IN  IF found /\ hs[conn] # "open"
        THEN [sent |-> <<Frame("send_throws", conn, message.client_id, "echo")>>,
              chat |-> FALSE]
        ELSE LET forwarded == IF found
                              THEN <<Frame("send", conn, message.client_id, "echo")>>
                              ELSE <<>>
                 handled == echo_message_handler(connections, hs, message)
             IN  [sent |-> forwarded \o handled.sent, chat |-> handled.chat]

\* what the properties keep of a message of the STT service: the message, the maps
\* and the lengths of the wire and of the task queue when it arrived
EchoCall(message) ==
    [op |-> "on_echo_message", message |-> message,
     before |-> Registry(_connections, _connection_to_user, _last_pong_time),
     handles |-> handles, sent |-> Len(wire), queued |-> Len(task_queue)]

\* A text frame of the STT service arrives: on_echo_message, the handler and, for a
\* chat, the enqueue of handle_chat_message_with_audio_async (ChatService.cpp lines
\* 85-99) with a callback that does nothing
OnEchoMessage(message) ==
    /\ env.echoes > 0
    /\ LET r == on_echo_message(_connections, handles, message)
       IN  /\ wire' = wire \o r.sent
           /\ task_queue' = IF r.chat
                            THEN Append(task_queue,
                                        [user_id |-> "default_user", message |-> message.text,
                                         callback |-> NoCallback])
                            ELSE task_queue
    /\ env' = [env EXCEPT !.echoes = @ - 1, !.last_call = EchoCall(message)]
    /\ UNCHANGED <<http, tts, registryvars, config, gemini_api_keys, _current_key_index,
                   conversations, _sessions, _agentLoops, _discovered_servers, workers,
                   replies, now, _connections, _connection_to_user, _last_pong_time,
                   handles, callers, log>>

----------------------------------------------------------------------------
(* Specifications *)

\* the registry after a constructor whose discovery found the servers of
\* _discovered_servers, each without tools
Registered ==
    /\ _services = [i \in DOMAIN _discovered_servers |->
                      ServiceInfo(ServiceName(_discovered_servers[i]),
                                  _discovered_servers[i], TRUE)]
    /\ _tools = <<>>
    /\ _tools_per_server = [u \in {_discovered_servers[i] : i \in DOMAIN _discovered_servers}
                              |-> <<>>]

InitState ==
    /\ _current_key_index = 0
    /\ conversations = EmptyMap
    /\ _sessions = EmptyMap
    /\ _agentLoops = <<>>
    /\ task_queue = <<>>
    /\ workers = [w \in Workers |-> IdleJob]
    /\ replies = <<>>
    /\ now = 0
    /\ _connections = EmptyMap
    /\ _connection_to_user = EmptyMap
    /\ _last_pong_time = EmptyMap
    /\ handles = [c \in Handles |-> "none"]
    /\ wire = <<>>
    /\ callers = [t \in Callers |-> IdleCaller]
    /\ log = <<>>
    /\ http = <<>>

\* The agent loop: one worker, an LLM that may answer anything
Init ==
    /\ InitState
    /\ gemini_api_keys \in {<<>>, <<"k1">>}
    /\ config = Configured(gemini_api_keys)
    /\ _discovered_servers \in {<<>>, Servers}
    /\ Registered
    /\ tts = IdleTts
    /\ env = [chats_left |-> MaxChats, quota |-> [u \in Users |-> MaxChats],
              free_answers |-> MaxScript, tails |-> LLMTails, pool |-> {"w1"}]

Next ==
    \/ \E u \in Users, m \in Messages : Submit(u, m)
    \/ \E w \in Workers : ChatBegin(w)
    \/ \E w \in Workers : RunLoopStart(w)
    \/ \E w \in Workers : AgentStep(w)
    \/ \E w \in Workers : RunLoopComplete(w)
    \/ \E w \in Workers : ChatRespond(w)
    \/ \E w \in Workers : ChatThrown(w)

Spec == Init /\ [][Next]_vars

\* Retention of the loops: many chats, an LLM that answers at once
InitRetention ==
    /\ InitState
    /\ gemini_api_keys = <<"k1">>
    /\ config = Configured(gemini_api_keys)
    /\ _discovered_servers = <<>>
    /\ Registered
    /\ tts = IdleTts
    /\ env = [chats_left |-> MaxStores + MaxFew,
              quota |-> [u \in Users |-> IF u = "u2" THEN MaxStores ELSE MaxFew],
              free_answers |-> 0,
              tails |-> {[kind |-> "text", text |-> TXT_FINAL_HELLO]}, pool |-> {"w1"}]

NextRetention ==
    \/ \E u \in Users, m \in Messages : Submit(u, m)
    \/ \E w \in Workers : ChatBegin(w)
    \/ \E w \in Workers : RunLoopStart(w)
    \/ \E w \in Workers : AgentStep(w)
    \/ \E w \in Workers : RunLoopComplete(w)
    \/ \E w \in Workers : ChatRespond(w)

SpecRetention == InitRetention /\ [][NextRetention]_vars

\* The memory store and the session tracker called by one thread at a time
InitMemory ==
    /\ InitState
    /\ gemini_api_keys = <<"k1">>
    /\ config = Configured(gemini_api_keys)
    /\ _discovered_servers = <<>>
    /\ Registered
    /\ tts = IdleTts
    /\ env = [pool |-> {"t1"}, ops_left |-> MaxMemOps, session_ops |-> 0]

NextMemory ==
    \/ \E t \in Callers, u \in Users, c \in Contents : AddMessageBegin(t, u, c)
    \/ \E t \in Callers : AddMessageEnd(t)
    \/ \E t \in Callers, u \in Users : GetConversation(t, u)
    \/ \E t \in Callers : IterateConversation(t)
    \/ \E t \in Callers, u \in Users : ClearConversation(t, u)

SpecMemory == InitMemory /\ [][NextMemory]_vars

\* The two stores called by one thread at a time: conversations appended and cleared,
\* sessions started and ended
InitStores ==
    /\ InitState
    /\ gemini_api_keys = <<"k1">>
    /\ config = Configured(gemini_api_keys)
    /\ _discovered_servers = <<>>
    /\ Registered
    /\ tts = IdleTts
    /\ env = [pool |-> {"t1"}, ops_left |-> MaxStoreOps, session_ops |-> MaxSessionOps,
              last_call |-> NoCall]

NextStores ==
    \/ \E t \in Callers, u \in Users, c \in Contents : AddMessageBegin(t, u, c)
    \/ \E t \in Callers : AddMessageEnd(t)
    \/ \E t \in Callers, u \in Users : ClearConversation(t, u)
    \/ \E u \in Users : StartSession(u)
    \/ \E u \in Users : EndSession(u)

SpecStores == InitStores /\ [][NextStores]_vars

\* The memory store called by two threads at once
InitMemoryRace ==
    /\ InitState
    /\ gemini_api_keys = <<"k1">>
    /\ config = Configured(gemini_api_keys)
    /\ _discovered_servers = <<>>
    /\ Registered
    /\ tts = IdleTts
    /\ env = [pool |-> Callers, ops_left |-> MaxRaceOps, session_ops |-> 0]

NextMemoryRace ==
    \/ \E t \in Callers, u \in Users, c \in Contents : AddMessageBegin(t, u, c)
    \/ \E t \in Callers : AddMessageEnd(t)
    \/ \E t \in Callers, u \in Users : GetConversation(t, u)
    \/ \E t \in Callers : IterateConversation(t)
    \/ \E t \in Callers, u \in Users : ClearConversation(t, u)

SpecMemoryRace == InitMemoryRace /\ [][NextMemoryRace]_vars

\* The session tracker: sessions started, touched and ended while time passes and the
\* cleanup thread sweeps
InitSessions ==
    /\ InitState
    /\ gemini_api_keys = <<"k1">>
    /\ config = Configured(gemini_api_keys)
    /\ _discovered_servers = <<>>
    /\ Registered
    /\ tts = IdleTts
    /\ env = [session_ops |-> MaxSessionOps, sweeps |-> MaxSweeps, timeout |-> TimeoutMinutes,
              last_instant |-> MaxClock, last_call |-> NoCall]

NextSessions ==
    \/ \E u \in Users : StartSession(u)
    \/ \E u \in Users : EndSession(u)
    \/ \E u \in Users : TouchSession(u)
    \/ Tick
    \/ Sweep

SpecSessions == InitSessions /\ [][NextSessions]_vars

\* The WebSocket manager: connections open, register, pong and close while time passes
\* and the ping thread sweeps
InitGateway ==
    /\ InitState
    /\ gemini_api_keys = <<"k1">>
    /\ config = Configured(gemini_api_keys)
    /\ _discovered_servers = <<>>
    /\ Registered
    /\ tts = IdleTts
    /\ env = [frames |-> MaxFrames, pongs |-> MaxPongs, sends |-> MaxSends,
              sweeps |-> MaxSweeps, pong_timeout |-> PongTimeout,
              last_instant |-> MaxGatewayClock,
              last_call |-> [op |-> "none", conn |-> "", user_id |-> "",
                             before |-> Registry(EmptyMap, EmptyMap, EmptyMap),
                             handles |-> [c \in Handles |-> "none"], at |-> 0, sent |-> 0]]

NextGateway ==
    \/ \E c \in Handles : Connect(c)
    \/ \E c \in Handles, message \in WsTexts : TextFrame(c, message)
    \/ \E c \in Handles : Pong(c)
    \/ \E c \in Handles : Disconnect(c)
    \/ PingSweep
    \/ \E u \in Users : SendTo(u)
    \/ Tick

SpecGateway == InitGateway /\ [][NextGateway]_vars

\* the keys that may be configured
AllKeys == <<"k1", "k2", "k3", "k4">>

\* The rotation of the keys: a fixed list of keys, two threads that ask for the
\* current key
InitKeys ==
    /\ InitState
    /\ \E n \in 1..MaxKeys : gemini_api_keys = SubSeq(AllKeys, 1, n)
    /\ config = Configured(gemini_api_keys)
    /\ _discovered_servers = <<>>
    /\ Registered
    /\ tts = IdleTts
    /\ env = [pool |-> Callers, key_calls |-> MaxKeyCalls]

NextKeys ==
    \/ \E t \in Callers : KeyLock(t)
    \/ \E t \in Callers : KeyRead(t)
    \/ \E t \in Callers : KeyReturn(t)

SpecKeys == InitKeys /\ [][NextKeys]_vars

\* the lists discover_tools can build from the services: each service is in or out
RECURSIVE Discoverable(_, _)
Discoverable(services, i) ==
    IF i > Len(services) THEN {<<>>}
    ELSE LET rest == Discoverable(services, i + 1)
         IN  rest \cup {<<services[i]>> \o r : r \in rest}

\* Tool calls of a worker thread while the periodic discovery runs
InitTools ==
    /\ InitState
    /\ gemini_api_keys = <<>>
    /\ config = Configured(gemini_api_keys)
    /\ _discovered_servers \in Discoverable(Servers, 1)
    /\ tts = IdleTts
    /\ _services = [i \in DOMAIN Servers |-> ServiceInfo(ServiceName(Servers[i]), Servers[i], TRUE)]
    /\ _tools = <<>>
    /\ _tools_per_server = [u \in {_discovered_servers[i] : i \in DOMAIN _discovered_servers}
                              |-> <<>>]
    /\ env = [pool |-> {"t1"}, discoverer |-> "t2",
              tool_calls |-> MaxToolCalls, discoveries |-> MaxDiscoveries,
              last_call |-> ToolCall(<<>>, <<>>, <<>>, FALSE, FALSE)]

NextTools ==
    \/ \E t \in Callers : ExecuteToolBegin(t)
    \/ \E t \in Callers, i \in DOMAIN Servers, answer \in ToolAnswers :
          ExecuteToolContact(t, Servers[i], answer)
    \/ \E t \in Callers : ExecuteToolContact(t, "garbage", "http500")
    \/ \E t \in Callers : ExecuteToolFail(t)
    \/ DiscoverTools
    \/ \E listing \in {Listing("throws", <<>>), Listing("no_tools", <<>>)} :
          DiscoverServer(listing)

SpecTools == InitTools /\ [][NextTools]_vars

\* what the coordination store may answer to a refresh: nothing, a status other than
\* 200, or the catalog with, for each service, the answer of its health request
CatalogAnswers ==
    {[status |-> "unreachable", entries |-> <<>>], [status |-> "non200", entries |-> <<>>]}
    \cup {[status |-> "ok",
           entries |-> <<CatalogEntry("consul", "", FALSE, "ok"),
                         CatalogEntry("svc1", "s1", TRUE, h1),
                         CatalogEntry("svc2", "s2", TRUE, h2),
                         CatalogEntry("web", "h3", FALSE, "ok")>>] :
              h1 \in {"ok", "throws"}, h2 \in {"ok", "non200", "throws"}}

\* what a server may answer to tools/list
Listings ==
    {Listing("throws", <<>>), Listing("no_tools", <<>>), Listing("listed", <<TOOL_ECHO_A>>),
     Listing("listed", <<TOOL_ECHO_B, TOOL_TIME>>)}

\* The discovery thread alone: refreshes of the services and of the tools
InitDiscovery ==
    /\ InitState
    /\ gemini_api_keys = <<>>
    /\ config = Configured(gemini_api_keys)
    /\ _discovered_servers = <<>>
    /\ Registered
    /\ tts = IdleTts
    /\ env = [pool |-> {}, discoverer |-> "t2", refreshes |-> MaxRefreshes,
              discoveries |-> MaxRefreshes, last_good |-> <<>>, failed_refresh |-> FALSE,
              last_call |-> ToolCall(<<>>, <<>>, <<>>, FALSE, FALSE)]

NextDiscovery ==
    \/ \E answer \in CatalogAnswers : DiscoverServices(answer)
    \/ DiscoverTools
    \/ \E listing \in Listings : DiscoverServer(listing)

SpecDiscovery == InitDiscovery /\ [][NextDiscovery]_vars

\* the sequences of at most n messages the provider may send on one connection
RECURSIVE Scripts(_)
Scripts(n) ==
    IF n = 0 THEN {<<>>}
    ELSE LET shorter == Scripts(n - 1)
         IN  shorter \cup {Append(script, frame) : script \in shorter, frame \in TtsFrames}

\* One call of synthesize_speech, with a provider that accepts the connection or not
\* and sends what it likes
InitTTS ==
    /\ InitState
    /\ gemini_api_keys = <<>>
    /\ config = Configured(gemini_api_keys)
    /\ _discovered_servers = <<>>
    /\ _services = <<>>
    /\ _tools = <<>>
    /\ _tools_per_server = EmptyMap
    /\ tts = [IdleTts EXCEPT !.pc = "attempt"]
    /\ env = [script |-> <<>>, ending |-> "error", sent |-> <<>>, connections |-> 0]

NextTTS ==
    \/ \E connected \in BOOLEAN, script \in Scripts(MaxTtsFrames), ending \in {"close", "error"} :
          TtsConnect(connected, script, ending)
    \/ TtsRequest
    \/ TtsWhileTest
    \/ TtsDispatch
    \/ TtsAudio
    \/ TtsAudioDone
    \/ TtsAfterWhile
    \/ TtsCatch

SpecTTS == InitTTS /\ [][NextTTS]_vars

\* the thread that runs synthesize_speech keeps running
SpecTTSLive == SpecTTS /\ WF_vars(NextTTS)


\* POST /chat: clients post any body, one worker runs the chats, the LLM may answer
\* anything once and then ends its loops
HttpBodies == {REQ_CHAT_U1, REQ_CHAT_U2, REQ_NO_MESSAGE, REQ_NO_USER, REQ_ARRAY,
               REQ_BAD_MESSAGE, REQ_BAD_USER, REQ_MALFORMED}

InitHttp ==
    /\ InitState
    /\ gemini_api_keys = <<"k1">>
    /\ config = Configured(gemini_api_keys)
    /\ _discovered_servers = <<>>
    /\ Registered
    /\ tts = IdleTts
    /\ env = [posts |-> MaxPosts, free_answers |-> MaxScript,
              tails |-> {[kind |-> "text", text |-> TXT_FINAL_HELLO]},
              pool |-> {"w1"}]

WorkerStep ==
    \/ \E w \in Workers : ChatBegin(w)
    \/ \E w \in Workers : RunLoopStart(w)
    \/ \E w \in Workers : AgentStep(w)
    \/ \E w \in Workers : RunLoopComplete(w)
    \/ \E w \in Workers : ChatRespond(w)
    \/ \E w \in Workers : ChatThrown(w)

IoStep == \E id \in 1..MaxPosts : HttpRespond(id)

NextHttp ==
    \/ \E request_body \in HttpBodies : OnHttpChat(request_body)
    \/ WorkerStep
    \/ IoStep

SpecHttp == InitHttp /\ [][NextHttp]_vars

\* the worker threads and the io_service thread keep running
SpecHttpLive == SpecHttp /\ WF_vars(WorkerStep) /\ WF_vars(IoStep)


\* The chat frames of the WebSocket clients: connections open, register, send chat
\* frames and close while the workers run the agent jobs; the LLM ends each loop at once
WsChatTexts == {REGISTER_PREFIX \o <<"u1">>, WS_START_U1, WS_END_U1, WS_MESSAGE_U1,
                WS_NO_ACTIVE_U1, WS_BAD_TYPE}

InitWs ==
    /\ InitState
    /\ gemini_api_keys = <<"k1">>
    /\ config = Configured(gemini_api_keys)
    /\ _discovered_servers = <<>>
    /\ Registered
    /\ tts = IdleTts
    /\ env = [frames |-> MaxWsFrames, free_answers |-> 0,
              tails |-> {[kind |-> "text", text |-> TXT_FINAL_HELLO]},
              pool |-> {"w1"},
              last_call |-> [op |-> "none", conn |-> "", user_id |-> "",
                             before |-> Registry(EmptyMap, EmptyMap, EmptyMap),
                             handles |-> [c \in Handles |-> "none"], at |-> 0, sent |-> 0]]

NextWs ==
    \/ \E c \in Handles : Connect(c)
    \/ \E c \in Handles, message \in WsChatTexts : TextFrame(c, message)
    \/ \E c \in Handles : Disconnect(c)
    \/ \E w \in Workers : ChatBegin(w)
    \/ \E w \in Workers : RunLoopStart(w)
    \/ \E w \in Workers : AgentStep(w)
    \/ \E w \in Workers : RunLoopComplete(w)
    \/ \E w \in Workers : ChatRespond(w)
    \/ \E w \in Workers : EndSessionCallback(w)

SpecWs == InitWs /\ [][NextWs]_vars


\* Clients that go away: connections open, register, send chat frames and close while
\* the worker runs the agent jobs; the LLM ends each loop at once
ClientTexts == {REGISTER_PREFIX \o <<"u1">>, REGISTER_PREFIX \o <<"u2">>, WS_MESSAGE_U1}

InitDisconnect ==
    /\ InitState
    /\ gemini_api_keys = <<"k1">>
    /\ config = Configured(gemini_api_keys)
    /\ _discovered_servers = <<>>
    /\ Registered
    /\ tts = IdleTts
    /\ env = [frames |-> MaxClientFrames, free_answers |-> 0,
              tails |-> {[kind |-> "text", text |-> TXT_FINAL_HELLO]},
              pool |-> {"w1"},
              last_call |-> [op |-> "none", conn |-> "", user_id |-> "",
                             before |-> Registry(EmptyMap, EmptyMap, EmptyMap),
                             handles |-> [c \in Handles |-> "none"], at |-> 0, sent |-> 0]]

NextDisconnect ==
    \/ \E c \in Handles : Connect(c)
    \/ \E c \in Handles, message \in ClientTexts : TextFrame(c, message)
    \/ \E c \in Handles : Disconnect(c)
    \/ \E w \in Workers : ChatBegin(w)
    \/ \E w \in Workers : RunLoopStart(w)
    \/ \E w \in Workers : AgentStep(w)
    \/ \E w \in Workers : RunLoopComplete(w)
    \/ \E w \in Workers : ChatRespond(w)

SpecDisconnect == InitDisconnect /\ [][NextDisconnect]_vars

\* The configuration: a default-constructed AppConfig, a configuration file that is
\* absent, malformed or holds a document, calls of the key-list operations and of
\* POST /config in any order
KeyLists == {<<>>, <<"k1">>, <<"", "k2">>, <<"k1", "k2">>}
KeyArgs == {"", "k1", "k2"}
Paths == {"", "config.json"}
EnvValues ==
    {[set |-> FALSE, str |-> <<>>], [set |-> TRUE, str |-> <<>>],
     [set |-> TRUE, str |-> <<"k1", ",", ",", "k2">>],
     [set |-> TRUE, str |-> <<",", "k1", ",">>]}
Files ==
    {NoFile, Malformed,
     FileOf(JConfig(JArr(<<JStr(""), JStr("k1")>>), JStr("m2"), JAbsent)),
     FileOf(JConfig(JArr(<<JNum, JStr("k3")>>), JNum, JStr("p2"))),
     FileOf(JConfig(JArr(<<>>), JAbsent, JAbsent))}
Bodies ==
    {JConfig(JAbsent, JAbsent, JAbsent),
     JConfig(JArr(<<JStr("k2")>>), JAbsent, JAbsent),
     JConfig(JAbsent, JStr("m2"), JAbsent),
     JConfig(JAbsent, JAbsent, JStr("p2")),
     JConfig(JArr(<<>>), JAbsent, JAbsent),
     JConfig(JStr("k2"), JAbsent, JAbsent),
     JConfig(JArr(<<JStr("k2")>>), JNum, JAbsent),
     JConfig(JArr(<<JStr("")>>), JStr("m2"), JStr("p2"))}

InitConfig ==
    /\ InitState
    /\ gemini_api_keys = <<>>
    /\ config = DefaultConfig
    /\ _discovered_servers = <<>>
    /\ Registered
    /\ tts = IdleTts
    /\ \E file \in Files :
          env = [config_ops |-> MaxConfigOps, file |-> file,
                 last_call |-> [op |-> "none", body |-> JConfig(JAbsent, JAbsent, JAbsent),
                                key |-> "", applied |-> {}, saved |-> FALSE,
                                message |-> "",
                                before |-> AppConfig(<<>>, 0, DefaultConfig),
                                file |-> file]]

NextConfig ==
    \/ \E path \in Paths : SetConfigFilePath(path)
    \/ \E keys \in KeyLists : SetGeminiApiKeys(keys)
    \/ \E keys \in KeyLists : WithGeminiApiKeys(keys)
    \/ \E key \in KeyArgs : AddGeminiApiKey(key)
    \/ \E key \in KeyArgs : RemoveGeminiApiKey(key)
    \/ \E value \in EnvValues : LoadFromEnvironment(value)
    \/ LoadFromFile
    \/ GetCurrentGeminiApiKey
    \/ \E body \in Bodies : PostConfig(body)

SpecConfig == InitConfig /\ [][NextConfig]_vars

\* Sends to connections that are gone: clients connect, register and go away, sessions
\* start and expire, the expiry sweep and the transcription handler broadcast, a
\* binary reply is sent to a user id
InitBroadcast ==
    /\ InitState
    /\ gemini_api_keys = <<"k1">>
    /\ config = Configured(gemini_api_keys)
    /\ _discovered_servers = <<>>
    /\ Registered
    /\ tts = IdleTts
    /\ env = [frames |-> MaxBroadcastFrames, sends |-> MaxSends, session_ops |-> MaxFew,
              sweeps |-> MaxSweeps, timeout |-> TimeoutMinutes,
              last_instant |-> 2 * TimeoutMinutes,
              last_call |-> [op |-> "none", conn |-> "", user_id |-> "",
                             before |-> Registry(EmptyMap, EmptyMap, EmptyMap),
                             handles |-> [c \in Handles |-> "none"], at |-> 0, sent |-> 0]]

NextBroadcast ==
    \/ \E c \in Handles : Connect(c)
    \/ \E c \in Handles, u \in Users : TextFrame(c, REGISTER_PREFIX \o <<u>>)
    \/ \E c \in Handles : Disconnect(c)
    \/ \E u \in Users : SendTo(u)
    \/ Transcription
    \/ StartSession("u1")
    \/ Tick
    \/ Sweep

SpecBroadcast == InitBroadcast /\ [][NextBroadcast]_vars

\* The connection maps between threads: the event loop registers and disconnects,
\* another thread reads the map
InitRegistry ==
    /\ InitState
    /\ gemini_api_keys = <<"k1">>
    /\ config = Configured(gemini_api_keys)
    /\ _discovered_servers = <<>>
    /\ Registered
    /\ tts = IdleTts
    /\ env = [frames |-> MaxRegistrations, sends |-> MaxReads,
              last_call |-> [op |-> "none", conn |-> "", user_id |-> "",
                             before |-> Registry(EmptyMap, EmptyMap, EmptyMap),
                             handles |-> [c \in Handles |-> "none"], at |-> 0, sent |-> 0]]

NextRegistry ==
    \/ \E c \in Handles : Connect(c)
    \/ \E c \in Handles, u \in Users : RegisterBegin(c, u)
    \/ RegisterEnd
    \/ \E c \in Handles : CloseBegin(c)
    \/ CloseEnd
    \/ \E t \in Callers, op \in RegistryReads : ReadBegin(t, op)
    \/ \E t \in Callers : ReadEnd(t)

SpecRegistry == InitRegistry /\ [][NextRegistry]_vars

\* The getters of the catalog beside the discovery thread.  The catalog is the one a
\* complete discover_tools built from two MCP services that listed their tools
InitCatalog ==
    /\ InitState
    /\ gemini_api_keys = <<>>
    /\ config = Configured(gemini_api_keys)
    /\ tts = IdleTts
    /\ _services = [i \in DOMAIN Servers |-> ServiceInfo(ServiceName(Servers[i]), Servers[i], TRUE)]
    /\ _discovered_servers = Servers
    /\ _tools = <<TOOL_ECHO_A, TOOL_ECHO_B, TOOL_TIME>>
    /\ _tools_per_server = ("s1" :> <<TOOL_ECHO_A>>) @@ ("s2" :> <<TOOL_ECHO_B, TOOL_TIME>>)
    /\ env = [pool |-> {"t1"}, discoverer |-> "t2", reads |-> MaxCatalogReads,
              discoveries |-> MaxDiscoveries,
              last_call |-> ToolCall(<<>>, <<>>, <<>>, FALSE, FALSE)]

NextCatalog ==
    \/ \E t \in Callers, op \in CatalogReads : GetCatalogBegin(t, op)
    \/ \E t \in Callers : GetCatalogEnd(t)
    \/ DiscoverTools
    \/ \E listing \in Listings : DiscoverServer(listing)

SpecCatalog == InitCatalog /\ [][NextCatalog]_vars

\* The buffer of the completed loops: workers store up to one loop more than the
\* buffer holds, a handler thread asks for the last one
InitLoops ==
    /\ InitState
    /\ gemini_api_keys = <<>>
    /\ config = Configured(gemini_api_keys)
    /\ _discovered_servers = <<>>
    /\ Registered
    /\ tts = IdleTts
    /\ env = [pool |-> {"t1"}, stores |-> MAX_LOOPS + 1, reads |-> MaxLoopReads,
              last_call |-> ToolCall(<<>>, <<>>, <<>>, FALSE, FALSE)]

NextLoops ==
    \/ \E loop \in {LOOP_A, LOOP_B} : StoreAgentLoop(loop)
    \/ \E t \in Callers : GetLastAgentLoop(t)
    \/ \E t \in Callers : GetAgentLoops(t)

SpecLoops == InitLoops /\ [][NextLoops]_vars

\* the messages the STT service may send: interim, final or of another type, to no
\* client, to a user id or to an id nobody registered
EchoMessages ==
    {EchoMessage(type, <<"h", "i">>, FALSE, "") : type \in {"interim", "final", "partial"}}
    \cup {EchoMessage(type, <<"h", "i">>, TRUE, id) :
             type \in {"interim", "final", "partial"}, id \in Users \cup {"nobody"}}

\* The gateway with the STT client: clients connect, register and leave while
\* messages of the STT service arrive
InitEcho ==
    /\ InitState
    /\ gemini_api_keys = <<"k1">>
    /\ config = Configured(gemini_api_keys)
    /\ _discovered_servers = <<>>
    /\ Registered
    /\ tts = IdleTts
    /\ env = [frames |-> MaxBroadcastFrames, echoes |-> MaxEchoes,
              last_call |-> [op |-> "none", conn |-> "", user_id |-> "",
                             before |-> Registry(EmptyMap, EmptyMap, EmptyMap),
                             handles |-> [c \in Handles |-> "none"], at |-> 0, sent |-> 0]]

NextEcho ==
    \/ \E c \in Handles : Connect(c)
    \/ \E c \in Handles, u \in Users : TextFrame(c, REGISTER_PREFIX \o <<u>>)
    \/ \E c \in Handles : Disconnect(c)
    \/ \E message \in EchoMessages : OnEchoMessage(message)

SpecEcho == InitEcho /\ [][NextEcho]_vars

----------------------------------------------------------------------------
(* Properties *)

\* the loops being run and the loops retained
RunningLoops == {workers[w].current_loop : w \in Workers}
StoredLoops == {_agentLoops[i] : i \in DOMAIN _agentLoops}
AllLoops == RunningLoops \cup StoredLoops

\* the events of kind op among the events of a job
EventsOf(events, op) == SelectSeq(events, LAMBDA e : e.op = op)

\* C1: an agent loop executes at most 20 steps, whatever the LLM answers: while it
\* runs it has made fewer than 20 LLM calls, it never makes a 21st LLM call or a 21st
\* tool call, and once the cap is hit it ends with the safety message, completed.
C1_StepCap ==
    \A w \in Workers :
        LET job == workers[w]
        IN  /\ Len(job.current_loop.steps) <= MAX_STEPS
            /\ Len(EventsOf(job.events, "llm")) <= MAX_STEPS
            /\ Len(EventsOf(job.events, "execute_tool")) <= MAX_STEPS
            /\ job.pc = "step" =>
                    /\ job.step_number <= MAX_STEPS
                    /\ Len(EventsOf(job.events, "llm")) = job.step_number - 1
            /\ (job.pc = "complete" /\ job.step_number > MAX_STEPS) =>
                    job.response = SAFETY_MESSAGE
            /\ (job.pc = "respond" /\ job.step_number > MAX_STEPS) =>
                    /\ job.current_loop.final_response = SAFETY_MESSAGE
                    /\ job.current_loop.completed
                    /\ job.current_loop \in StoredLoops

\* a loop that hit the cap after a tool call and 19 thinking steps has been stored
C1_Witness ==
    \E w \in Workers :
        /\ workers[w].pc = "respond"
        /\ workers[w].step_number > MAX_STEPS
        /\ Len(workers[w].current_loop.steps) = MAX_STEPS
        /\ workers[w].current_loop.steps[1].type = "TOOL_CALL"
        /\ workers[w].current_loop.completed

\* C2: in every loop, running or stored, the i-th step carries the number i.
C2_Contiguous ==
    \A loop \in AllLoops :
        \A i \in DOMAIN loop.steps : loop.steps[i].step_number = i

\* a stored loop of 20 steps that begins with a tool-call parse error
C2_Witness ==
    \E loop \in StoredLoops :
        /\ Len(loop.steps) = MAX_STEPS
        /\ loop.steps[1].type = "THINKING"
        /\ StartsWith(loop.steps[1].reasoning, <<"Error parsing tool call:">>)
        /\ loop.steps[MAX_STEPS].step_number = MAX_STEPS

\* C3: a RESPONSE step is the last step of its loop (so there is at most one).
C3_ResponseLast ==
    \A loop \in AllLoops :
        \A i \in DOMAIN loop.steps :
            loop.steps[i].type = "RESPONSE" => i = Len(loop.steps)

\* a stored loop of several steps that ends with its RESPONSE step
C3_Witness ==
    \E loop \in StoredLoops :
        /\ Len(loop.steps) >= 2
        /\ loop.steps[Len(loop.steps)].type = "RESPONSE"
        /\ loop.steps[1].type # "RESPONSE"

\* C4 as claimed: a completed loop has a non-empty final_response and does not end
\* before it starts, whatever the LLM answers.
C4_Original ==
    \A loop \in AllLoops :
        loop.completed => (loop.final_response # <<>> /\ loop.end_time >= loop.start_time)

\* C5 as claimed: with no key configured a chat still runs the loop to the cap: 20
\* LLM calls that return the empty object, 20 THINKING steps, the safety message, and
\* the loop is stored.
C5_Original ==
    \A w \in Workers :
        (gemini_api_keys = <<>> /\ workers[w].pc = "respond") =>
            LET job == workers[w]
            IN  /\ Len(EventsOf(job.events, "llm")) = MAX_STEPS
                /\ Len(job.current_loop.steps) = MAX_STEPS
                /\ \A i \in DOMAIN job.current_loop.steps :
                        job.current_loop.steps[i].type = "THINKING"
                /\ job.response = SAFETY_MESSAGE
                /\ job.current_loop \in StoredLoops

\* C5 as amended: with no key configured run_loop returns its error text at once: no
\* LLM call is made, no step is recorded, no loop is stored, and the error text is what
\* the client gets and what is appended as the assistant's message.
C5_NoKey ==
    gemini_api_keys = <<>> =>
        /\ _agentLoops = <<>>
        /\ \A w \in Workers :
                /\ workers[w].pc \in {"idle", "run_loop", "respond"}
                /\ workers[w].events = <<>>
                /\ workers[w].current_loop.steps = <<>>
                /\ workers[w].pc = "respond" => workers[w].response = NO_KEY_MESSAGE
        /\ \A i \in DOMAIN replies :
                replies[i].text_response = NO_KEY_MESSAGE /\ replies[i].events = <<>>
        /\ \A u \in DOMAIN conversations :
                \A i \in DOMAIN conversations[u] :
                    conversations[u][i].role = "assistant" =>
                        conversations[u][i].content = NO_KEY_MESSAGE

\* a chat answered without a key: the reply and the assistant's message are the error
C5_Witness ==
    /\ gemini_api_keys = <<>>
    /\ \E i \in DOMAIN replies :
        LET u == replies[i].user_id
        IN  /\ replies[i].text_response = NO_KEY_MESSAGE
            /\ Len(conversations[u]) = 2
            /\ conversations[u][2].role = "assistant"
            /\ conversations[u][2].content = NO_KEY_MESSAGE

\* the last two messages of a conversation are the user's m and the assistant's t
EndsWithExchange(conversation, m, t) ==
    /\ Len(conversation) >= 2
    /\ conversation[Len(conversation) - 1].role = "user"
    /\ conversation[Len(conversation) - 1].content = m
    /\ conversation[Len(conversation)].role = "assistant"
    /\ conversation[Len(conversation)].content = t

\* C6 as claimed: when the first LLM output of a chat is FINAL_RESPONSE: followed by a
\* blank and t, the reply is exactly t; once the chat is over the user's memory ends
\* with [user: message, assistant: t] and the stored loop has one step, a RESPONSE.
C6_Original ==
    \A i \in DOMAIN replies :
        LET rec == replies[i]
            first == rec.events[1]
            t == Substr(first.arg, Len(FINAL_PREFIX) + 1)
        IN  (/\ rec.events # <<>>
             /\ first.kind = "text"
             /\ StartsWith(first.arg, FINAL_PREFIX \o <<" ">>)) =>
                /\ rec.text_response = t
                /\ (i = Len(replies) /\ \A w \in Workers : workers[w].pc = "idle") =>
                        /\ EndsWithExchange(conversations[rec.user_id], rec.message, t)
                        /\ _agentLoops # <<>>
                        /\ Len(_agentLoops[Len(_agentLoops)].steps) = 1
                        /\ _agentLoops[Len(_agentLoops)].steps[1].type = "RESPONSE"

\* the position in events of the k-th LLM call
LlmPos(events, k) ==
    CHOOSE i \in DOMAIN events :
        /\ events[i].op = "llm"
        /\ Cardinality({j \in 1..i : events[j].op = "llm"}) = k

\* C7: when the LLM answers a well-formed tool call and then a final response, the
\* steps are [TOOL_CALL, RESPONSE]; the first carries the tool name, the parameters
\* and, as tool_result, the value execute_tool returned; execute_tool is called once,
\* between the two LLM calls; the context of the second prompt contains that value.
C7_SingleToolHop ==
    \A w \in Workers :
        LET job == workers[w]
            llm == EventsOf(job.events, "llm")
            tool == EventsOf(job.events, "execute_tool")
            steps == job.current_loop.steps
        IN  (/\ job.pc \in {"complete", "respond"}
             /\ Len(llm) = 2
             /\ llm[1].kind = "text" /\ llm[1].arg = TXT_TOOL_ECHO
             /\ llm[2].kind = "text" /\ StartsWith(llm[2].arg, FINAL_PREFIX)) =>
                /\ Len(steps) = 2
                /\ steps[1].type = "TOOL_CALL" /\ steps[2].type = "RESPONSE"
                /\ steps[1].tool_name = <<"echo">>
                /\ steps[1].tool_parameters = <<"{\"x\":1}">>
                /\ Len(tool) = 1
                /\ steps[1].tool_result = tool[1].arg
                /\ job.events[1].op = "llm"
                /\ job.events[2].op = "execute_tool"
                /\ LlmPos(job.events, 2) = Len(job.events)
                /\ Contains(job.last_context, tool[1].arg)

\* a tool hop whose first server failed and whose second server answered
C7_Witness ==
    \E w \in Workers :
        LET job == workers[w]
            llm == EventsOf(job.events, "llm")
        IN  /\ job.pc = "respond"
            /\ Len(llm) = 2
            /\ llm[1].arg = TXT_TOOL_ECHO
            /\ StartsWith(llm[2].arg, FINAL_PREFIX)
            /\ job.current_loop.steps[1].tool_result = BODY_OK
            /\ Len(EventsOf(job.events, "tools/call")) = 2

\* the tool calls that are no valid JSON or carry no tool_name
MalformedToolCalls == {TXT_TOOL_BADJSON, TXT_TOOL_NONAME}

\* C8: a malformed tool call never aborts the request: its step is a THINKING step
\* whose reasoning begins "Error parsing tool call:", neither execute_tool nor a tool
\* server is called for it, and the loop goes on to the next step or to the cap.
C8_MalformedToolCall ==
    \A w \in Workers :
        LET job == workers[w]
            llm == EventsOf(job.events, "llm")
            steps == job.current_loop.steps
        IN  \A k \in DOMAIN llm :
                (llm[k].kind = "text" /\ llm[k].arg \in MalformedToolCalls) =>
                    /\ k <= Len(steps)
                    /\ steps[k].type = "THINKING"
                    /\ StartsWith(steps[k].reasoning, <<"Error parsing tool call:">>)
                    /\ IF k < Len(llm)
                       THEN LlmPos(job.events, k + 1) = LlmPos(job.events, k) + 1
                       ELSE /\ LlmPos(job.events, k) = Len(job.events)
                            /\ \/ job.pc = "step" /\ job.step_number = k + 1
                               \/ /\ k = MAX_STEPS
                                  /\ job.pc \in {"complete", "respond"}
                                  /\ job.response = SAFETY_MESSAGE

\* a tool call without tool_name was answered, tool servers are known, and the loop
\* has gone on for five more steps
C8_Witness ==
    \E w \in Workers :
        LET llm == EventsOf(workers[w].events, "llm")
        IN  /\ Len(llm) >= 6
            /\ llm[1].arg = TXT_TOOL_NONAME
            /\ _discovered_servers # <<>>
            /\ workers[w].pc = "step"

\* the last n elements of a sequence
LastN(seq, n) == IF Len(seq) > n THEN SubSeq(seq, Len(seq) - n + 1, Len(seq)) ELSE seq

StoredUsers ==
    [i \in DOMAIN replies |-> replies[i].user_id]
    \o (IF \E w \in Workers : workers[w].pc = "respond"
        THEN <<workers[CHOOSE w \in Workers : workers[w].pc = "respond"].user_id>>
        ELSE <<>>)

Min(a, b) == IF a < b THEN a ELSE b

CountOf(seq, u) == Cardinality({i \in DOMAIN seq : seq[i] = u})

----------------------------------------------------------------------------
(* The memory store *)

\* the contents of the messages of a conversation, in order
ContentsOf(conversation) == [i \in DOMAIN conversation |-> conversation[i].content]

\* the contents appended for u by the calls of lg since the last clear of u, in the
\* order in which the calls returned
RECURSIVE Expected(_, _)
Expected(lg, u) ==
    IF lg = <<>> THEN <<>>
    ELSE LET e == lg[Len(lg)]
             rest == SubSeq(lg, 1, Len(lg) - 1)
         IN  IF e.user_id = u /\ e.op = "clear_conversation" THEN <<>>
             ELSE IF e.user_id = u /\ e.op = "add_message"
                  THEN Append(Expected(rest, u), e.content)
                  ELSE Expected(rest, u)

C12_Original ==
    /\ \A u \in Users :
          ContentsOf(get_conversation(conversations, u)[u]) = Expected(log, u)
    /\ \A i \in DOMAIN log :
          log[i].op = "iterated" => log[i].observed = log[i].value

\* C13: clear_conversation(u) applied twice leaves the store that one application
\* leaves, also for a user without conversation; end_session(u) on a session that is
\* ended or absent leaves the sessions as they are (no entry created, active,
\* start_time and last_activity unchanged).
C13_Idempotent ==
    /\ \A u \in Users :
          clear_conversation(clear_conversation(conversations, u), u)
             = clear_conversation(conversations, u)
    /\ \A u \in Users :
          ~is_session_active(_sessions, u) => end_session(_sessions, u) = _sessions
    /\ (env.last_call.op = "end_session"
           /\ ~is_session_active(env.last_call.before, env.last_call.user_id))
          => _sessions = env.last_call.before

\* C13 witness: a conversation with a message was cleared twice, and end_session was
\* called for a session already ended while another user has no session
C13_Witness ==
    \E u \in Users, v \in Users :
       /\ u # v
       /\ Len(log) = 3
       /\ log[1].op = "add_message" /\ log[1].user_id = u
       /\ log[2].op = "clear_conversation" /\ log[2].user_id = u
       /\ log[3].op = "clear_conversation" /\ log[3].user_id = u
       /\ u \notin DOMAIN conversations
       /\ env.last_call.op = "end_session" /\ env.last_call.user_id = u
       /\ u \in DOMAIN env.last_call.before /\ ~env.last_call.before[u].active
       /\ v \notin DOMAIN _sessions

----------------------------------------------------------------------------
(* The session tracker *)

\* C14: touch_session(u) never activates a session: for a user without session or with
\* an ended one it leaves the sessions as they are (is_session_active(u) stays false, no
\* entry is created, last_activity is unchanged); for an active session it sets
\* last_activity to the instant of the call and nothing else.
C14_TouchNeverActivates ==
    /\ \A u \in Users :
          ~is_session_active(_sessions, u) => touch_session(_sessions, u, now + 1) = _sessions
    /\ env.last_call.op = "touch_session" =>
          LET u == env.last_call.user_id
              before == env.last_call.before
          IN  IF is_session_active(before, u)
              THEN _sessions = [before EXCEPT ![u].last_activity = env.last_call.at]
              ELSE _sessions = before /\ ~is_session_active(_sessions, u)

\* C14 witness: a session ended some time ago was touched, while another user has no
\* session
C14_Witness ==
    \E u \in Users, v \in Users :
       /\ u # v
       /\ env.last_call.op = "touch_session" /\ env.last_call.user_id = u
       /\ u \in DOMAIN env.last_call.before
       /\ ~env.last_call.before[u].active
       /\ env.last_call.at > env.last_call.before[u].last_activity
       /\ v \notin DOMAIN _sessions

\* the session_expired events naming u that were broadcast after the first `sent` things
\* of the wire
ExpiredEvents(u, sent) ==
    SelectSeq(SubSeq(wire, sent + 1, Len(wire)),
              LAMBDA f : f.op = "broadcast" /\ f.text = "session_expired" /\ f.user_id = u)

----------------------------------------------------------------------------
(* The WebSocket manager *)

\* the handles that the connection registry associates with user id u
HandlesOf(u) == {c \in DOMAIN _connection_to_user : _connection_to_user[c] = u}

\* C16: each user id maps to at most one connection; when register:<u> arrives on a
\* connection c, u maps to c and to c only: no entry of the registry still associates
\* another handle (the one replaced) with u.
C16_Original ==
    /\ \A u \in Users : Cardinality(HandlesOf(u)) <= 1
    /\ (env.last_call.op = "on_message" /\ env.last_call.user_id # "")
          => /\ env.last_call.user_id \in DOMAIN _connections
             /\ _connections[env.last_call.user_id] = env.last_call.conn
             /\ HandlesOf(env.last_call.user_id) = {env.last_call.conn}

\* C17: once the close handler has run for a connection c, no user id maps to c and the
\* records kept by handle (user association, last-pong time) hold nothing for c, also
\* when c had registered more than one user id.
C17_Original ==
    \A c \in Handles :
       handles[c] = "closed" =>
          /\ \A u \in DOMAIN _connections : _connections[u] # c
          /\ c \notin DOMAIN _connection_to_user
          /\ c \notin DOMAIN _last_pong_time

\* what was put on the wire by the last call on the WebSocket manager
SentByLastCall == SubSeq(wire, env.last_call.sent + 1, Len(wire))

\* the connections that were registered and open when the last call was made
RegisteredBefore ==
    {c \in Handles : /\ env.last_call.handles[c] = "open"
                     /\ \E u \in DOMAIN env.last_call.before.connections :
                           env.last_call.before.connections[u] = c}

\* a ping sweep closes, and does not ping, every registered connection whose last pong
\* is older than the pong timeout, and pings every other registered connection
C18_Sweep ==
    env.last_call.op = "ping_clients" =>
       \A c \in RegisteredBefore :
          LET pongs == env.last_call.before.last_pong_time
              pinged == \E i \in DOMAIN SentByLastCall :
                           SentByLastCall[i].op = "ping" /\ SentByLastCall[i].conn = c
              closed == \E i \in DOMAIN SentByLastCall :
                           SentByLastCall[i].op = "close" /\ SentByLastCall[i].conn = c
          IN  IF c \in DOMAIN pongs /\ env.last_call.at - pongs[c] > env.pong_timeout
              THEN closed /\ ~pinged /\ handles[c] = "closing"
              ELSE pinged /\ ~closed /\ handles[c] = "open"

\* a pong sets the last-pong time of its connection to the instant it arrives
C18_Pong ==
    env.last_call.op = "pong" =>
       /\ env.last_call.conn \in DOMAIN _last_pong_time
       /\ _last_pong_time[env.last_call.conn] = env.last_call.at

\* a send addressed to a user id whose connection was closed by a ping sweep, the close
\* having been processed, finds no client
C18_SendAfterClose ==
    env.last_call.op = "send_binary_to_client_by_id" =>
       LET u == env.last_call.user_id
           conns == env.last_call.before.connections
           gone == /\ u \in DOMAIN conns
                   /\ env.last_call.handles[conns[u]] = "closed"
                   /\ \E i \in DOMAIN wire : wire[i].op = "close" /\ wire[i].conn = conns[u]
       IN  (u \notin DOMAIN conns \/ gone)
              => SentByLastCall = <<Frame("client_not_found", "", u, "")>>

\* C18: at each ping sweep every registered connection whose last pong is older than the
\* pong timeout is closed and not pinged and every other registered connection is pinged;
\* a pong updates the last-pong time of its connection; once the close has been
\* processed, a send addressed to that user id finds no client and sends nothing.
C18_Original == C18_Sweep /\ C18_Pong /\ C18_SendAfterClose

----------------------------------------------------------------------------
(* The rotation of the keys *)

\* the keys returned by getCurrentGeminiApiKey, in the order of the returns
KeysReturned == [i \in DOMAIN log |-> log[i].value[1]]

\* how often key was returned by the calls from+1 .. from+count
TimesReturned(key, from, count) ==
    Cardinality({i \in (from + 1)..(from + count) : KeysReturned[i] = key})

\* C19: with a fixed list of n >= 1 keys, any k*n calls of getCurrentGeminiApiKey that
\* follow one another, from one thread or from several, return each of the n keys
\* exactly k times; the calls return the keys in list order starting at the cursor; the
\* read of the key and the advance of the cursor are one atomic step: no two threads are
\* between the read and the advance at once, and two calls in a row never get the same
\* position of a list with more than one key.
C19_Rotation ==
    LET n == Len(gemini_api_keys)
    IN  /\ \A from \in 0..Len(log), k \in 1..Len(log) :
              from + k * n <= Len(log) =>
                 \A p \in 1..n : TimesReturned(gemini_api_keys[p], from, k * n) = k
        /\ \A i \in DOMAIN log : KeysReturned[i] = gemini_api_keys[((i - 1) % n) + 1]
        /\ \A t1 \in Callers, t2 \in Callers :
              (t1 # t2 /\ callers[t1].pc = "key_read") => callers[t2].pc \notin {"key_locked", "key_read"}
        /\ \A i \in DOMAIN log : (i > 1 /\ n > 1) => KeysReturned[i] # KeysReturned[i - 1]

\* C19 witness: 2 * 3 calls on a list of 3 keys have returned, some from each thread
C19_Witness ==
    /\ Len(gemini_api_keys) = 3
    /\ Len(log) = 6
    /\ \A t \in Callers : \E i \in DOMAIN log : log[i].user_id = t

----------------------------------------------------------------------------
(* The failover of the tool servers *)

\* the answers that are a success for the contract: a body with status "success",
\* with a `result` field or with a `content` field
SuccessAnswers == {"status_success", "ok", "content"}

\* the body of such an answer
BodyOf(answer) ==
    CASE answer = "status_success" -> BODY_STATUS
      [] answer = "ok" -> BODY_OK
      [] answer = "content" -> BODY_CONTENT
      [] OTHER -> <<>>

\* the contract of one call of execute_tool: the servers contacted are the known ones
\* in discovery order, none after a success, none twice; the body of the first success
\* is the value returned; the error object is returned only after every known server
\* failed; when the first fails with HTTP 500 and the second succeeds the second's
\* body is returned
FailoverContract(call) ==
    LET servers == call.servers
        contacted == call.contacted
    IN  /\ Len(contacted) <= Len(servers)
        /\ \A i \in DOMAIN contacted :
              /\ i <= Len(servers) => contacted[i].server = servers[i]
              /\ contacted[i].answer \in SuccessAnswers =>
                    /\ i = Len(contacted)
                    /\ call.done
                    /\ call.value = BodyOf(contacted[i].answer)
              /\ \A j \in DOMAIN contacted : i # j => contacted[i].server # contacted[j].server
        /\ call.done =>
              \/ contacted # <<>> /\ contacted[Len(contacted)].answer \in SuccessAnswers
              \/ /\ Len(contacted) = Len(servers)
                 /\ call.value \notin {BODY_OK, BODY_STATUS, BODY_CONTENT}
        /\ (/\ call.done
            /\ Len(contacted) >= 2
            /\ contacted[1].answer = "http500"
            /\ contacted[2].answer \in SuccessAnswers) =>
              call.value = BodyOf(contacted[2].answer)

\* C20: execute_tool tries the known MCP servers in discovery order, returns the body
\* of the first server whose answer has status "success", a `result` field or a
\* `content` field, contacts no server after that success and none twice in one call;
\* when the first server fails with HTTP 500 and the second succeeds the second's body
\* is returned and no error reaches the client.
C20_Original == FailoverContract(env.last_call)

\* the same contract for the calls during which discover_tools did not write to
\* _discovered_servers
FailoverUndisturbed == ~env.last_call.dirty => FailoverContract(env.last_call)

\* a call that found s1 and s2, got HTTP 500 from s1 and a success from s2, undisturbed
FailoverReached ==
    /\ env.last_call.done
    /\ ~env.last_call.dirty
    /\ env.last_call.servers = Servers
    /\ Len(env.last_call.contacted) = 2
    /\ env.last_call.contacted[1].answer = "http500"
    /\ env.last_call.contacted[2].answer \in SuccessAnswers

----------------------------------------------------------------------------
(* The errors of the tool servers *)

\* the entry of error_details that one failed attempt is reported with
DetailOf(attempt) ==
    IF attempt.answer = "bad_status"
    THEN <<"Server: ", attempt.server, " - Exception: ",
           "[json.exception.type_error.302] type must be string, but is number">>
    ELSE <<"Server: ", attempt.server, " - ">> \o
         (CASE attempt.answer = "http500" -> <<"Message: ", "HTTP error: 500">>
            [] attempt.answer = "transport" ->
                  <<"Message: ", "HTTP Exception: ", "Failed to connect">>
            [] attempt.answer = "bad_json" ->
                  <<"Message: ", "JSON extraction error: ", "Syntax error">>
            [] attempt.answer = "bad_url" -> <<"Message: ", "URI Exception: ", "invalid uri">>
            [] attempt.answer = "error_body" -> <<"Message: ", "boom">>
            [] OTHER -> <<"Unknown error">>)

\* the error object whose error_details has one entry per attempt, in attempt order,
\* and whose message lists them, or says that there was no server
ErrorOf(attempts) == ToolError([i \in DOMAIN attempts |-> DetailOf(attempts[i])])

\* C21: execute_tool never raises an error to its caller: whatever each server does
\* (transport exception, non-200 status, unparseable body, error body) the call
\* returns a value; when no server succeeds, also when no server is known, the value
\* has status "error", an aggregated message and an error_details list with exactly
\* one entry per server attempted, in attempt order.
C21_NeverThrows ==
    LET call == env.last_call
        attempts == call.attempts
    IN  /\ ~call.threw
        /\ \A t \in env.pool : callers[t].pc \in {"idle", "tool_loop"}
        /\ \A t \in env.pool :
              callers[t].pc = "tool_loop" =>
                 callers[t].content = [i \in DOMAIN attempts |-> DetailOf(attempts[i])]
        /\ call.done =>
              IF attempts # <<>> /\ attempts[Len(attempts)].answer \in {"status_success", "ok", "content"}
              THEN call.value \in {BODY_STATUS, BODY_OK, BODY_CONTENT}
              ELSE call.value = ErrorOf(attempts)

\* C21 witness: a call on two servers has returned the error object after a transport
\* exception of the first and an unparseable body of the second
C21_Witness ==
    /\ env.last_call.done
    /\ Len(env.last_call.attempts) = 2
    /\ env.last_call.attempts[1].answer = "transport"
    /\ env.last_call.attempts[2].answer = "bad_json"
    /\ env.last_call.value = ErrorOf(env.last_call.attempts)

----------------------------------------------------------------------------
(* The registry of the services and the catalog of the tools *)

\* C22: a failed refresh of the services (store unreachable, answer other than 200, or
\* an exception part-way) leaves the ServiceInfo set equal to the last set discovered
\* with success: after any sequence of refreshes the set is the result of the most
\* recent successful one.
C22_Original == _services = env.last_good

\* a refresh has failed after one that had found services
C22_Reached == env.failed_refresh /\ env.last_good # <<>>

\* the refresh of the tools that the discovery thread ran last, and whether it is over
LastRefresh == callers[env.discoverer].returned

RefreshOver == callers[env.discoverer].pc = "idle" /\ LastRefresh # <<>>

\* the MCP servers of the discovered service set
DiscoveredSet == {_services[i].mcp_url : i \in {j \in DOMAIN _services : _services[j].mcp}}

\* the tools of a sequence, as a set
ToolsOf(tools) == {tools[i] : i \in DOMAIN tools}

\* C23: when tools/list of an MCP server fails during a refresh and the server is
\* still in the discovered service set, the tools known for it before the refresh
\* remain in the catalog and in the per-server lists, and the server is still one that
\* execute_tool tries; the tools of a server are dropped only when the server is no
\* longer discovered.
C23_Original ==
    RefreshOver =>
       \A url \in LastRefresh.failed \cap DiscoveredSet :
          url \in DOMAIN LastRefresh.per_server =>
             /\ url \in DOMAIN _tools_per_server
             /\ _tools_per_server[url] = LastRefresh.per_server[url]
             /\ ToolsOf(LastRefresh.per_server[url]) \subseteq ToolsOf(_tools)
             /\ \E i \in DOMAIN _discovered_servers : _discovered_servers[i] = url

\* a refresh is over in which tools/list of s1 threw, s1 being discovered and known
\* with a tool before
C23_Reached ==
    /\ RefreshOver
    /\ "s1" \in LastRefresh.failed \cap DiscoveredSet
    /\ "s1" \in DOMAIN LastRefresh.per_server
    /\ LastRefresh.per_server["s1"] # <<>>

\* C24: the catalog returned by get_available_tools never holds two tools of one
\* name: when two servers, or one server's list, give a tool of the same name, the
\* catalog has one entry of that name, the one discovered later.
C24_Original ==
    \A i \in DOMAIN _tools, j \in DOMAIN _tools : i # j => _tools[i].name # _tools[j].name

\* a refresh is over in which s1 listed echo and s2 listed echo and time
C24_Reached ==
    /\ RefreshOver
    /\ _discovered_servers = Servers
    /\ _tools_per_server["s1"] = <<TOOL_ECHO_A>>
    /\ _tools_per_server["s2"] = <<TOOL_ECHO_B, TOOL_TIME>>

----------------------------------------------------------------------------
(* The synthesis of speech *)

\* C25: synthesize_speech always terminates, after at most 3 attempts, whatever the
\* provider sends (success text, failure text, an immediate close, pings and pongs,
\* unexpected types, receive errors): a failed attempt before the third is followed by
\* a fresh connection and a new attempt, and after the third failed attempt the empty
\* audio buffer is returned.
C25_Original == <>(tts.pc = "returned")

\* at most 3 attempts are made, each on a connection of its own
C25_Attempts == tts.attempt < max_retries /\ env.connections <= tts.attempt + 1

\* the first attempt has received the provider's close as its first message
C25_Reached ==
    /\ tts.attempt = 0
    /\ tts.pc = "dispatch"
    /\ tts.response_msg.type = "close"

\* the bodies of the binary messages of a script from position i up to its first close,
\* one after the other
RECURSIVE AudioFrom(_, _)
AudioFrom(script, i) ==
    IF i > Len(script) \/ script[i].type = "close" THEN <<>>
    ELSE (IF script[i].type = "binary" THEN script[i].body ELSE <<>>) \o AudioFrom(script, i + 1)

\* the positions of the success texts of a script
SuccessAt(script) == {i \in DOMAIN script : script[i] = TEXT_SUCCESS}

\* C26: on a successful exchange the audio buffer returned is the concatenation, in
\* arrival order, of all binary messages received after the success text and before
\* the close, for zero, one or several binary messages.
C26_Original ==
    (tts.pc = "returned" /\ tts.result # <<>>) =>
       \E i \in SuccessAt(env.sent) : tts.result = AudioFrom(env.sent, i + 1)

\* a call has returned audio on a connection on which the provider sent the success
\* text and then two binary messages
C26_Reached ==
    /\ tts.pc = "returned"
    /\ tts.result # <<>>
    /\ env.sent = <<TEXT_SUCCESS, BINARY_A, BINARY_B>>


----------------------------------------------------------------------------
(* POST /chat *)

\* the bodies whose member message or user_id is no string
WrongTyped == {REQ_BAD_MESSAGE, REQ_BAD_USER}

Received(id) == Len(http) >= id

Answered(id) == Received(id) /\ http[id].written = 1

\* no response is written twice
WrittenOnce == \A id \in DOMAIN http : http[id].written <= 1

\* C27: every POST /chat request received eventually gets exactly one response,
\* whatever its body: it is never left deferred without a response, and no response
\* is written twice.
C27_Original ==
    /\ \A id \in 1..MaxPosts : Received(id) ~> Answered(id)
    /\ []WrittenOnce

\* A request whose member message or user_id is no string has been deferred, the
\* handler returned after its catch set the status 400, and nothing is left that
\* would write the response: no task, no busy worker, no dispatched lambda.
C27_Reached ==
    \E id \in DOMAIN http :
        /\ http[id].request_body \in WrongTyped
        /\ http[id].http_state = "deferred"
        /\ http[id].status = 400
        /\ http[id].written = 0
        /\ http[id].dispatched = <<>>
        /\ task_queue = <<>>
        /\ \A w \in Workers : workers[w].pc = "idle"
        /\ env.posts = 0

\* Every request whose members message and user_id are strings, or that lacks one of
\* them, or that is no JSON, gets its response, and gets one only.
AnsweredUnlessWrongTyped ==
    /\ \A id \in 1..MaxPosts :
          (Received(id) /\ http[id].request_body \notin WrongTyped) ~> Answered(id)
    /\ []WrittenOnce

\* the bodies that are no JSON or lack message or user_id
Rejected == {REQ_MALFORMED, REQ_NO_MESSAGE, REQ_NO_USER, REQ_ARRAY}

\* the chats handed to the worker pool so far
JobsSubmitted ==
    Len(task_queue) + Cardinality({w \in Workers : workers[w].pc # "idle"}) + Len(replies)

\* the requests whose chat was handed to the worker pool
ChatsAccepted ==
    Cardinality({id \in DOMAIN http : http[id].request_body \in {REQ_CHAT_U1, REQ_CHAT_U2}})

\* C28: a POST /chat whose body is no JSON or lacks message or user_id is answered
\* with status 400, once and within the handler, and changes nothing else: no task is
\* queued for the workers, no conversation, session or stored loop changes; the jobs
\* ever submitted are as many as the well-formed requests.
C28_Rejected ==
    /\ [](JobsSubmitted = ChatsAccepted)
    /\ [][\A request_body \in Rejected :
             OnHttpChat(request_body) =>
                 /\ UNCHANGED <<task_queue, workers, replies, conversations, _sessions,
                                _agentLoops>>
                 /\ http'[Len(http')].status = 400
                 /\ http'[Len(http')].written = 1
                 /\ http'[Len(http')].dispatched = <<>>]_vars

\* A request without user_id has been answered 400 while a chat of another request is
\* running.
C28_Witness ==
    \E id \in DOMAIN http :
        /\ http[id].request_body = REQ_NO_USER
        /\ http[id].status = 400
        /\ http[id].written = 1
        /\ \E w \in Workers : workers[w].pc # "idle"

----------------------------------------------------------------------------
(* The chat frames of the WebSocket clients *)

\* the positions on the wire of the frames the callbacks sent or failed to send
ReplyFrames ==
    {i \in DOMAIN wire : wire[i].op \in {"send_text", "send_failed", "client_not_found"}}

\* what the message handler read in the text frame that the frame at position i answers
RequestOf(i) == MessageHandler(<<wire[wire[i].msg.reply_to].text>>)

\* the type the reply to a frame of this type is said to have
ClaimedReplyType(type) ==
    IF type \in {"session_start", "session_end"} THEN type ELSE "response"

\* the reply to a frame of type session_start or session_end has that type, the reply
\* to a frame of any other type has type response; it names the frame's user id
RepliesTyped ==
    \A i \in ReplyFrames :
        /\ wire[i].msg.type = ClaimedReplyType(RequestOf(i).type)
        /\ wire[i].msg.user_id = RequestOf(i).user_id

\* as RepliesTyped, for every type but session_no_active
RepliesTypedButNoActive ==
    \A i \in ReplyFrames :
        /\ RequestOf(i).type # "session_no_active" =>
               wire[i].msg.type = ClaimedReplyType(RequestOf(i).type)
        /\ wire[i].msg.user_id = RequestOf(i).user_id

\* a reply is made only when the job is over: its text is the final response of a
\* completed loop of the user that is stored
RepliesAfterJob ==
    \A i \in ReplyFrames :
        \E k \in DOMAIN _agentLoops :
            /\ _agentLoops[k].user_id = wire[i].msg.user_id
            /\ _agentLoops[k].completed
            /\ _agentLoops[k].final_response = wire[i].msg.text

\* end_session is applied after the reply of type session_end was sent, and leaves
\* the session inactive
EndAfterReply ==
    \A w \in Workers :
        EndSessionCallback(w) =>
            /\ \E i \in ReplyFrames :
                  /\ wire[i].msg.reply_to = workers[w].callback.id
                  /\ wire[i].msg.type = "session_end"
                  /\ wire[i].msg.user_id = workers[w].user_id
            /\ ~is_session_active(_sessions', workers[w].user_id)

\* a session that is not active becomes active only when a chat of its user is
\* submitted or taken by a worker
ActivatedByChat ==
    \A u \in DOMAIN _sessions' :
        (~is_session_active(_sessions, u) /\ is_session_active(_sessions', u)) =>
            \/ /\ task_queue # <<>>
               /\ Head(task_queue).user_id = u
               /\ task_queue' = Tail(task_queue)
            \/ /\ Len(task_queue') = Len(task_queue) + 1
               /\ task_queue'[Len(task_queue')].user_id = u

\* the handler of a session_start frame starts the session and submits the job, whose
\* callback is response_callback for the type session_start
StartThenSubmit ==
    \A c \in Handles :
        TextFrame(c, WS_START_U1) =>
            /\ is_session_active(_sessions', "u1")
            /\ _sessions'["u1"].start_time = now
            /\ task_queue' = Append(task_queue,
                                    [user_id |-> "u1", message |-> <<"h", "i">>,
                                     callback |-> [kind |-> "response_callback",
                                                   id |-> Len(wire'),
                                                   type |-> "session_start"]])

\* C29: for a frame of type session_end the reply of type session_end is sent before
\* end_session is applied, both after the job completed, and the session is then
\* inactive until a later chat of the user; for session_start the session is started
\* before the job is submitted and the reply has type session_start; the reply to a
\* frame of any other type has type response.
C29_Original ==
    /\ []RepliesTyped
    /\ []RepliesAfterJob
    /\ [][EndAfterReply /\ ActivatedByChat /\ StartThenSubmit]_vars

\* A frame of type session_no_active was answered, on an open connection.
C29_Reached ==
    \E i \in ReplyFrames :
        /\ wire[i].op = "send_text"
        /\ RequestOf(i).type = "session_no_active"
        /\ wire[i].msg.type = "session_no_active"

\* What holds of the session frames: the claim for every type but session_no_active.
SessionFrames ==
    /\ []RepliesTypedButNoActive
    /\ []RepliesAfterJob
    /\ [][EndAfterReply /\ ActivatedByChat /\ StartThenSubmit]_vars

\* The session of a user was ended by the callback of a session_end frame after its
\* reply was sent on the user's connection.
SessionEnded ==
    /\ \E i \in ReplyFrames : wire[i].op = "send_text" /\ wire[i].msg.type = "session_end"
    /\ "u1" \in DOMAIN _sessions
    /\ ~_sessions["u1"].active
    /\ \A w \in Workers : workers[w].pc = "idle"

\* the connection on which the text frame arrived that the frame at position i answers
Origin(i) == wire[wire[i].msg.reply_to].conn

\* the job of worker w was submitted by a text frame whose connection has closed
OriginClosed(w) ==
    /\ workers[w].callback.kind \in {"response_callback", "end_session_callback"}
    /\ handles[wire[workers[w].callback.id].conn] = "closed"

\* what the callback of worker w put on the wire
Sent(w) == SubSeq(wire', Len(wire) + 1, Len(wire'))

\* The job of worker w ends as a job does: the conversation of its user ends with
\* the user message and the assistant reply, its completed loop is stored, the callback
\* made one attempt to send the reply and the worker goes on
JobDone(w) ==
    LET job == workers[w]
    IN  /\ EndsWithExchange(conversations'[job.user_id], job.message, job.response)
        /\ \E k \in DOMAIN _agentLoops' :
              /\ _agentLoops'[k].user_id = job.user_id
              /\ _agentLoops'[k].user_message = job.message
              /\ _agentLoops'[k].final_response = job.response
              /\ _agentLoops'[k].completed
        /\ Len(Sent(w)) = 1
        /\ Sent(w)[1].msg.text = job.response
        /\ Sent(w)[1].msg.reply_to = job.callback.id
        /\ workers'[w].pc \in {"idle", "end_session"}

RepliedElsewhere ==
    \E i \in ReplyFrames :
        /\ wire[i].op = "send_text"
        /\ handles[Origin(i)] = "closed"
        /\ wire[i].conn # Origin(i)

\* A reply failed on the closed connection that is still registered for the user id.
RepliedToClosed ==
    \E i \in ReplyFrames :
        /\ wire[i].op = "send_failed"
        /\ wire[i].conn = Origin(i)

\* the AppConfig now
Current == AppConfig(gemini_api_keys, _current_key_index, config)

\* the last call was POST /config
Updated == env.last_call.op = "updateConfig"

\* a field of the configuration differs from its value before the last call
Changed(field) == Current[field] # env.last_call.before[field]

\* the last call wrote the configuration into the file
FileSaved ==
    /\ env.last_call.saved
    /\ env.last_call.before.config_file_path # ""
    /\ env.file = Dump(Current)

\* C31: POST /config is a partial update: each of gemini_api_keys, gemini_model and
\* gemini_system_prompt changes only if it is in the body and keeps its value
\* otherwise; the configuration is saved to the file exactly when at least one field
\* was applied; a request that applies no field leaves the configuration and the file
\* as they were and reports no changes.
C31_Original ==
    Updated =>
        /\ \A field \in {"gemini_api_keys", "gemini_model", "gemini_system_prompt"} :
              Changed(field) => env.last_call.body[field].t # "absent"
        /\ FileSaved <=> env.last_call.applied # {}
        /\ env.last_call.applied = {} =>
              /\ Current = env.last_call.before
              /\ env.file = env.last_call.file
              /\ env.last_call.message = "No changes"

\* POST /config set the keys and threw on the model: the keys are changed, nothing
\* is saved
C31_AppliedUnsaved ==
    /\ Updated
    /\ env.last_call.applied = {"gemini_api_keys"}
    /\ env.last_call.message = "error"
    /\ Changed("gemini_api_keys")
    /\ env.file = env.last_call.file

\* the keys of the list
KeySet == {gemini_api_keys[i] : i \in DOMAIN gemini_api_keys}

\* C40: after any sequence of key-list mutations and getCurrentGeminiApiKey calls,
\* gemini_enabled is true exactly when the key list is not empty, the key list holds
\* no empty string, and getCurrentGeminiApiKey returns the empty string exactly when
\* the list is empty and otherwise an element of the list.
C40_Original ==
    /\ config.gemini_enabled <=> gemini_api_keys # <<>>
    /\ "" \notin KeySet
    /\ env.last_call.op = "getCurrentGeminiApiKey" =>
          /\ env.last_call.key = "" <=> env.last_call.before.gemini_api_keys = <<>>
          /\ env.last_call.before.gemini_api_keys # <<>> =>
                env.last_call.key \in KeySet

\* loadFromFile took an empty key from the file and getCurrentGeminiApiKey returned it
C40_EmptyKeyReturned ==
    /\ env.last_call.op = "getCurrentGeminiApiKey"
    /\ env.last_call.key = ""
    /\ gemini_api_keys # <<>>


\* the step that execute_agent_step pushed in this transition of worker w
StepPushed(w) ==
    /\ workers[w].pc = "step"
    /\ Len(workers'[w].current_loop.steps) = Len(workers[w].current_loop.steps) + 1

\* the context of worker w grew in this transition
ContextGrew(w) == workers'[w].current_context # workers[w].current_context

\* C33: the line "Tool execution result: <serialized result>" is appended to the
\* context only after a step that executed a tool; after a THINKING step (free text,
\* empty LLM body, or tool-call parse error) the loop re-prompts with the step counter
\* incremented and with no tool-result line added to the context.
C33_Original ==
    [][\A w \in Workers :
          StepPushed(w) =>
              LET steps == workers'[w].current_loop.steps
                  step == steps[Len(steps)]
              IN  /\ ContextGrew(w) => step.type = "TOOL_CALL"
                  /\ step.type = "THINKING" =>
                        /\ workers'[w].step_number = workers[w].step_number + 1
                        /\ ~ContextGrew(w)]_vars

\* the last step of a job is a THINKING step and its result is in the context as a
\* tool execution result
C33_ThinkingAppended ==
    \E w \in Workers :
        LET steps == workers[w].current_loop.steps
        IN  /\ steps # <<>>
            /\ steps[Len(steps)].type = "THINKING"
            /\ \/ Contains(workers[w].current_context,
                           <<"\nTool execution result: ">> \o CONTINUE_ANALYSIS \o <<"\n">>)
               \/ Contains(workers[w].current_context,
                           <<"\nTool execution result: ">> \o PARSE_FAILED \o <<"\n">>)

\* C34: in every recorded agent step, tool_name is non-empty only if the step's type
\* is TOOL_CALL: every THINKING step, the one of a tool-call parse error after the
\* tool name was read included, and every RESPONSE step has an empty tool_name.
C34_Original ==
    \A loop \in AllLoops :
        \A i \in DOMAIN loop.steps :
            loop.steps[i].tool_name # <<>> => loop.steps[i].type = "TOOL_CALL"

\* a THINKING step that names a tool is recorded in a loop
C34_ThinkingNamed ==
    \E loop \in AllLoops :
        \E i \in DOMAIN loop.steps :
            /\ loop.steps[i].type = "THINKING"
            /\ loop.steps[i].tool_name = <<"echo">>


\* the last call on the WebSocket manager registered a user id or ran the close handler
RegisterOrClose ==
    \/ env.last_call.op = "on_message" /\ env.last_call.user_id # ""
    \/ env.last_call.op = "disconnect"

\* the user-to-connection map and the connection-to-user map are inverse to each other
Inverse ==
    /\ \A u \in DOMAIN _connections :
          /\ _connections[u] \in DOMAIN _connection_to_user
          /\ _connection_to_user[_connections[u]] = u
    /\ \A c \in DOMAIN _connection_to_user :
          /\ _connection_to_user[c] \in DOMAIN _connections
          /\ _connections[_connection_to_user[c]] = c

\* the user ids that were mapped to another connection than the one of the last call
MappedElsewhere ==
    {u \in DOMAIN env.last_call.before.connections :
        env.last_call.before.connections[u] # env.last_call.conn}

\* C38: re-registration survives the old connection's close: when user u registered
\* on c1, then on c2, and c1 closes afterwards, u is still mapped to c2 (so that
\* replies addressed to u go to c2); and the two maps are inverse to each other after
\* every register and close event.
C38_Original ==
    /\ RegisterOrClose => Inverse
    /\ env.last_call.op = "disconnect" =>
          \A u \in MappedElsewhere :
              /\ u \in DOMAIN _connections
              /\ _connections[u] = env.last_call.before.connections[u]

\* the close of a connection unregistered a user id whose connection is another one,
\* which is open
C38_Unmapped ==
    /\ env.last_call.op = "disconnect"
    /\ \E u \in MappedElsewhere :
          /\ handles[env.last_call.before.connections[u]] = "open"
          /\ u \notin DOMAIN _connections


\* the last call was a send by user id on a registered connection that was not open
SendOnDead ==
    /\ env.last_call.op = "send_binary_to_client_by_id"
    /\ env.last_call.user_id \in DOMAIN env.last_call.before.connections
    /\ env.last_call.handles[env.last_call.before.connections[env.last_call.user_id]]
          # "open"

\* C36: a failed send on a dead connection is handled as a liveness failure: the
\* connection is closed and its user-id mapping dropped, the failure does not leave
\* broadcast or the send by id, and during a broadcast the remaining registered
\* connections still receive the message (and the session-expiry sweep thread keeps
\* running).
C36_Original ==
    /\ Running
    /\ \A i \in DOMAIN wire : wire[i].op # "send_throws"
    /\ SendOnDead =>
          /\ env.last_call.user_id \notin DOMAIN _connections
          /\ handles[env.last_call.before.connections[env.last_call.user_id]]
                \in {"closing", "closed"}
    /\ env.last_call.op = "broadcast" =>
          \A c \in RegisteredBefore :
              \E i \in DOMAIN SentByLastCall :
                  SentByLastCall[i].op = "send" /\ SentByLastCall[i].conn = c

\* the expiry sweep broadcast to a connection that is gone while another registered
\* connection is open: the exception left the sweep thread and the open connection got
\* nothing
C36_Terminated ==
    /\ ~Running
    /\ \E u \in DOMAIN _connections :
          /\ handles[_connections[u]] = "open"
          /\ \A i \in DOMAIN wire :
                (wire[i].op = "send" /\ wire[i].text = "session_expired")
                    => wire[i].conn # _connections[u]

\* a send by user id failed on a connection that is gone and the user id is still
\* mapped to it
C36_StillMapped ==
    /\ SendOnDead
    /\ env.last_call.user_id \in DOMAIN _connections
    /\ handles[_connections[env.last_call.user_id]] = "closed"


\* the event loop is between the first and the last write of a registration or of a
\* disconnect
Writing == callers[EventLoop].pc \in {"registering", "disconnecting"}

\* the threads that are in a loop over the connection map or in a find
Readers == {t \in Callers : callers[t].pc = "reading"}

\* C35: accesses to the connection registry are mutually exclusive: no read or
\* iteration of the connection maps by the ping-sweep thread, the session-expiry
\* broadcaster or a worker thread's completion callback overlaps a registration or a
\* disconnect performed by the WS event loop, and a worker's callback touches the maps
\* only on the event loop or under the lock.
C35_Original ==
    /\ ~(Writing /\ Readers # {})
    /\ \A t \in Readers : ~callers[t].dirty
    /\ \A i \in DOMAIN log :
          log[i].op = "send_binary_to_client_by_id" =>
              \/ log[i].user_id = EventLoop
              \/ log[i].value = log[i].observed

\* a thread is in its loop over the map, which was written since it entered, while
\* the event loop is in the middle of a disconnect
C35_Overlap ==
    /\ callers[EventLoop].pc = "disconnecting"
    /\ \E t \in Readers : callers[t].dirty /\ callers[t].content = <<"broadcast">>

\* the calls of the getters of the catalog that returned, at most one refresh having
\* begun while the call ran, that refresh being the last one and complete
SettledReads ==
    {i \in DOMAIN log : /\ log[i].op \in CatalogReads
                        /\ log[i].observed.ended = env.discoveries
                        /\ log[i].observed.began - log[i].observed.ended <= 1
                        /\ callers[env.discoverer].pc = "idle"}

\* C37: a call of get_available_tools or get_tools_per_server that runs beside the
\* periodic discovery returns either the complete catalog from before the refresh or
\* the complete catalog after it, never an empty or partially rebuilt one
C37_Original ==
    \A i \in SettledReads :
        log[i].value \in {log[i].observed.before,
                          CatalogOf(log[i].op, _tools, _tools_per_server)}

\* a call of get_available_tools that no write overlapped returned no tool at all,
\* between the clear() of a refresh and its first tools/list answer, although the
\* catalog held tools before the refresh and holds tools after it
C37_EmptyCatalog ==
    \E i \in SettledReads :
        /\ log[i].op = "get_available_tools"
        /\ ~log[i].observed.dirty
        /\ log[i].observed.refreshing
        /\ log[i].value = <<>>
        /\ log[i].observed.before # <<>>
        /\ _tools # <<>>

\* the calls of get_last_agent_loop whose caller has read the loop
LastLoopReads == {i \in DOMAIN log : log[i].op = "get_last_agent_loop"}

\* C39: the loop a caller of get_last_agent_loop reads is the one stored loop the call
\* returned, whatever the workers store meanwhile; with an empty buffer it is the
\* empty loop, reported as exists = false
C39_Original ==
    \A i \in LastLoopReads :
        /\ log[i].value = log[i].observed.returned
        /\ log[i].observed.size = 0 => log[i].value = NoLoop /\ ~log[i].observed.exists

\* a worker stored a loop between the return of get_last_agent_loop and the reads of
\* the caller, and the caller read the user of one loop with the response of another
C39_Changed ==
    \E i \in LastLoopReads :
        /\ log[i].observed.dirty
        /\ log[i].value.user_id = log[i].observed.returned.user_id
        /\ log[i].value.final_response # log[i].observed.returned.final_response

\* C32: a message of the STT service starts a chat of default_user only when it is
\* of type final and carries no client_id: a final message addressed to a client_id
\* starts none, an interim message never does
C32_Original ==
    [][\A message \in EchoMessages :
          (OnEchoMessage(message) /\ task_queue' # task_queue) =>
              message.type = "final" /\ ~message.addressed]_vars

\* a final message addressed to a registered client was forwarded to that client and
\* a chat of default_user was queued for its text as well
C32_AddressedChat ==
    /\ env.last_call.op = "on_echo_message"
    /\ env.last_call.message.type = "final"
    /\ env.last_call.message.addressed
    /\ env.last_call.message.client_id \in DOMAIN _connections
    /\ Len(wire) > env.last_call.sent
    /\ wire[env.last_call.sent + 1] =
           Frame("send", _connections[env.last_call.message.client_id],
                 env.last_call.message.client_id, "echo")
    /\ Len(task_queue) = env.last_call.queued + 1
    /\ task_queue[Len(task_queue)].user_id = "default_user"
    /\ task_queue[Len(task_queue)].message = env.last_call.message.text

====
